---------------------------- MODULE Spec2Model ----------------------------
(***************************************************************************)
(* Verification model of the multi-tenant RAG platform backend.            *)
(*                                                                         *)
(* The sub-systems are modelled each under its own specification:          *)
(*   SpecVS   tenant-scoped vector store (Pinecone / Weaviate back-ends)   *)
(*   SpecLLM  LLM fallback chain with the in-process circuit breaker       *)
(*   SpecGW   the LLM gateway: routing, streaming, usage tracking          *)
(*   SpecMP   the upload endpoint: size limit and S3 multipart upload      *)
(*   SpecAU   the upload request: validation and the audit trail           *)
(*   SpecJW   token verification: JWKS cache, key rotation, role check     *)
(*   SpecDoc     document upload, soft-delete and the Celery worker        *)
(*   SpecWorker  the Celery worker and the beat scanner on documents       *)
(*               already uploaded; SpecWorkerFair adds weak fairness       *)
(*   SpecScanFair  the workers and the periodic retry scanner, with the    *)
(*               fairness of the beat scheduler and the broker             *)
(*   SpecRT   POST /query: hybrid retrieval up to the reranked chunks       *)
(*   SpecSSE  the upload-progress stream and its bounded queue              *)
(*   SpecST   GET /documents/{id}/status on documents the worker handles    *)
(***************************************************************************)
EXTENDS Integers, Sequences, FiniteSets, TLC

VARIABLES
    \* ---- vector store -------------------------------------------------
    vsBackend,     \* settings.vector_store_backend
    vsIndex,       \* objects held by the back-end: set of [ns, id, metadata]
    vsLast,        \* outcome of the last store call (what the caller saw)
    \* ---- LLM fallback chain ---------------------------------------------
    cbFailures,    \* _CIRCUIT_STATES[p].failures
    cbOpenUntil,   \* _CIRCUIT_STATES[p].open_until
    now,           \* time.monotonic(), in seconds
    llmReq,        \* position and locals of each in-flight ainvoke()
    llmLast,       \* how the most recently finished ainvoke() call ended
    llmCalls,      \* number of ainvoke() calls started so far
    cbStreak,      \* history: consecutive failed answers of a provider
    llmFailed,     \* number of failed provider answers so far
    cbOpenedAt,    \* history: time the provider's circuit last opened, or -1
    \* ---- documents and the ingestion worker -----------------------------
    docs,          \* committed rows of saas.documents, by document id
    nextDoc,       \* next fresh document id (uuid4 of the next upload)
    upl,           \* position and locals of each in-flight upload request
    uplLast,       \* how the most recently finished upload request ended
    queue,         \* process_document messages held by the broker
    wk,            \* position and locals of each worker's current task
    runs,          \* number of messages delivered to workers so far
    taskLast,      \* how the most recently finished run ended
    auditLog,      \* committed worker entries of saas.audit_logs, per document
    docVectors,    \* documents whose vectors are in the vector store
    docChunks,     \* documents with committed rows in saas.chunks
    \* ---- LLM gateway ----------------------------------------------------
    gw,            \* position and locals of the in-flight gateway call
    gwLast,        \* what the caller of the last finished gateway call saw
    gwCalls,       \* number of gateway calls started so far
    tokenUsage,    \* saas.token_usage_logs: request_count per (model, provider)
    \* ---- streaming multipart upload -------------------------------------
    mp,            \* position and locals of the in-flight upload request
    mpLast,        \* the current or last upload request: what it did, its response
    s3Upload,      \* the multipart upload held by S3: its state and parts
    s3Calls,       \* calls made to object storage by the upload request
    mpCount,       \* number of upload requests started so far
    \* ---- upload validation and the audit trail --------------------------
    au,            \* position and session of the in-flight upload request
    auLast,        \* the current or last upload request and its response
    auditRows,     \* committed rows of saas.audit_logs written by the API
    auDocs,        \* committed status of the document of each request
    auCount,       \* number of upload requests started so far
    \* ---- authentication -------------------------------------------------
    jw,            \* position and locals of the request being verified
    jwLast,        \* what the current or last verified request did, its answer
    jwksCache,     \* the JWKS cache entry of each verifier
    issuerKeys,    \* key ids in the JWKS the issuer serves now
    jwNow,         \* time.monotonic(), in seconds
    jwCount,       \* number of requests verified so far
    \* ---- query retrieval, progress stream, status endpoint --------------
    rt,            \* position, locals and answer of the retrieval of a query
    sse,           \* _SSE_QUEUES entry of one upload token, and the last push
    stLast         \* the last answer of the status endpoint

vsVars  == <<vsBackend, vsIndex, vsLast>>
llmVars == <<cbFailures, cbOpenUntil, now, llmReq, llmLast, llmCalls, llmFailed,
             cbStreak, cbOpenedAt>>
docVars == <<docs, nextDoc, upl, uplLast, queue, wk, runs, taskLast,
             auditLog, docVectors, docChunks>>
gwVars  == <<gw, gwLast, gwCalls, tokenUsage>>
mpVars  == <<mp, mpLast, s3Upload, s3Calls, mpCount>>
auVars  == <<au, auLast, auditRows, auDocs, auCount>>
jwVars  == <<jw, jwLast, jwksCache, issuerKeys, jwNow, jwCount>>
apiVars == <<rt, sse, stLast>>
vars    == <<vsVars, llmVars, docVars, gwVars, mpVars, auVars, jwVars, apiVars>>

None == "none"

\* a missing string-valued field (dict.get() returned None)
NoValue == <<>>

(***************************************************************************)
(* Generic helpers                                                         *)
(***************************************************************************)
Min(a, b) == IF a <= b THEN a ELSE b

Range(s) == {s[i] : i \in 1..Len(s)}

\* all sequences over S of length 0..n
SeqsUpTo(S, n) == UNION {[1..k -> S] : k \in 0..n}

(***************************************************************************)
(* ========================  VECTOR STORE  =============================== *)
(***************************************************************************)

\* ---- bounds ------------------------------------------------------------
MaxRecords == 2          \* records passed to one upsert call
MaxTopK    == 2          \* largest top_k a caller asks for

\* Tenant ids are UUID strings: fixed-position hyphens between hex groups.
Tenants  == {<<"a", "-", "1">>, <<"a", "-", "2">>}
VecIds   == {"v1", "v2"}
DocNames == {<<"d", "1">>, <<"d", "2">>}
Backends == {"pinecone", "weaviate"}

\* metadata a caller may put on a VectorRecord; tenant_id may be missing
RecordMetas == [tenant_id : Tenants \cup {NoValue}, document_id : DocNames]

\* vector ids are derived from the chunk (tenant:document:chunk_index), so
\* an id always comes with the same document
DocOf(id) == IF id = "v1" THEN <<"d", "1">> ELSE <<"d", "2">>
VectorRecords ==
    {r \in [id : VecIds, metadata : RecordMetas] :
        r.metadata.document_id = DocOf(r.id)}

\* caller-supplied query filters: a {field: value} dict given as its items;
\* None and the empty dict are both the empty set (`if extra:` / `if filter`)
NoFilter == {}
QueryFilters ==
    {NoFilter} \cup {{[field |-> "tenant_id", value |-> t]} : t \in Tenants}
               \cup {{[field |-> "document_id", value |-> d]} : d \in DocNames}
               \cup {{[field |-> "tenant_id", value |-> t],
                       [field |-> "document_id", value |-> d]} :
                          t \in Tenants, d \in DocNames}

StripHyphens(t) == SelectSeq(t, LAMBDA c : c # "-")

\* PineconeVectorStore._namespace: f"tenant_{tenant_id}"
PineconeNamespace(t) == <<"tenant_">> \o t

WeaviateNamespaceShared(t) == <<"Tenant", "_">>
\* WeaviateVectorStore._namespace: "Tenant_" + tenant_id without hyphens
WeaviateNamespace(t) == <<"Tenant", "_">> \o StripHyphens(t)

Namespace(backend, t) ==
    IF backend = "pinecone" THEN PineconeNamespace(t) ELSE WeaviateNamespace(t)

ValidateRecordAcceptAll(t, rec) == TRUE
\* _validate_record: TRUE iff the record passes (no ValueError)
ValidateRecord(t, rec) == rec.metadata.tenant_id = t

\* what one back-end object looks like after the write of `rec`
\*   Pinecone stores rec.metadata verbatim;
\*   Weaviate builds the properties itself, tenant_id = str(self._tenant_id)
StoredObject(backend, t, rec) ==
    [ns       |-> Namespace(backend, t),
     id       |-> rec.id,
     metadata |-> IF backend = "pinecone"
                    THEN rec.metadata
                    ELSE [tenant_id   |-> t,
                          document_id |-> rec.metadata.document_id]]

\* index.upsert / insert_many of one batch: existing ids are overwritten,
\* a later record of the batch wins over an earlier one with the same id
RECURSIVE WriteBatch(_, _, _, _)
WriteBatch(index, backend, t, batch) ==
    IF batch = <<>> THEN index
    ELSE LET obj  == StoredObject(backend, t, Head(batch))
             kept == {o \in index : ~(o.ns = obj.ns /\ o.id = obj.id)}
         IN  WriteBatch(kept \cup {obj}, backend, t, Tail(batch))

\* upsert(): batches of batch_size; every record of a batch is validated
\* before that batch is sent; a ValueError leaves earlier batches written.
RECURSIVE UpsertLoop(_, _, _, _, _, _)
UpsertLoop(index, backend, t, records, batch_size, total) ==
    IF records = <<>> THEN [index |-> index, raised |-> FALSE, total |-> total]
    ELSE LET n     == Min(batch_size, Len(records))
             batch == SubSeq(records, 1, n)
             rest  == SubSeq(records, n + 1, Len(records))
         IN  IF \E i \in 1..n : ~ValidateRecord(t, batch[i])
               THEN [index |-> index, raised |-> TRUE, total |-> total]
               ELSE UpsertLoop(WriteBatch(index, backend, t, batch),
                               backend, t, rest, batch_size, total + n)

\* every clause of a caller-supplied filter holds of the object's metadata
MatchesFilter(obj, f) ==
    \A c \in f : obj.metadata[c.field] = c.value

\* PineconeVectorStore._tenant_filter: base tenant clause ANDed with extra
TenantFilter(t, extra, obj) ==
    obj.metadata.tenant_id = t /\ MatchesFilter(obj, extra)

\* objects the back-end considers for a query issued by the store of `t`
QueryCandidates(index, backend, t, filter) ==
    IF backend = "pinecone"
      THEN {o \in index : o.ns = PineconeNamespace(t) /\ TenantFilter(t, filter, o)}
      ELSE {o \in index : o.ns = WeaviateNamespace(t) /\ MatchesFilter(o, filter)}

QueryCap == 100          \* top_k = min(top_k, 100) in PineconeVectorStore.query

EffectiveTopK(backend, top_k) ==
    IF backend = "pinecone" THEN Min(top_k, QueryCap) ELSE top_k

\* ---- actions -----------------------------------------------------------
Upsert(t, records, batch_size) ==
    LET r == UpsertLoop(vsIndex, vsBackend, t, records, batch_size, 0)
    IN  /\ vsIndex' = r.index
        /\ vsLast'  = [op |-> "upsert", tenant |-> t,
                       foreign |-> \E i \in 1..Len(records) :
                                       records[i].metadata.tenant_id # t,
                       raised |-> r.raised, total |-> r.total, results |-> {}]
        /\ UNCHANGED <<vsBackend, llmVars, docVars, gwVars, mpVars, auVars, jwVars,
            apiVars>>

\* the back-end returns the top_k nearest candidates; similarity is not
\* modelled, so any top_k-sized selection of the candidates may come back
Query(t, top_k, filter) ==
    LET cands == QueryCandidates(vsIndex, vsBackend, t, filter)
        k     == Min(EffectiveTopK(vsBackend, top_k), Cardinality(cands))
    IN  \E res \in SUBSET cands :
          /\ Cardinality(res) = k
          /\ vsLast' = [op |-> "query", tenant |-> t, foreign |-> FALSE,
                        raised |-> FALSE, total |-> 0,
                        results |-> {[id |-> o.id, metadata |-> o.metadata] : o \in res}]
          /\ UNCHANGED <<vsBackend, vsIndex, llmVars, docVars, gwVars, mpVars, auVars, jwVars,
            apiVars>>

\* delete(ids): removes the ids from the tenant's namespace
Delete(t, ids) ==
    /\ ids # {}
    /\ vsIndex' = {o \in vsIndex : ~(o.ns = Namespace(vsBackend, t) /\ o.id \in ids)}
    /\ vsLast'  = [op |-> "delete", tenant |-> t, foreign |-> FALSE,
                   raised |-> FALSE, total |-> 0, results |-> {}]
    /\ UNCHANGED <<vsBackend, llmVars, docVars, gwVars, mpVars, auVars, jwVars,
            apiVars>>

VSIdle == [op |-> "none", tenant |-> None, foreign |-> FALSE,
           raised |-> FALSE, total |-> 0, results |-> {}]


(***************************************************************************)
(* ======================  LLM FALLBACK CHAIN  =========================== *)
(***************************************************************************)

\* ---- bounds ------------------------------------------------------------
MaxCalls == 3            \* ainvoke() calls started in one behaviour
MaxNow   == 60           \* the clock stops here
MaxFailures == 4         \* failed provider answers in one behaviour
TimeStep == 20           \* seconds added by one clock step

Requests == {"r1", "r2"} \* concurrently running ainvoke() coroutines

\* ---- program constants -------------------------------------------------
OPEN_THRESHOLD      == 3
RESET_SECONDS       == 60

Providers == {"openai", "azure_openai", "aws_bedrock", "ollama"}

\* _REGISTERED_MODELS, in catalogue order.  quality_score is in tenths,
\* costs are in 1e-5 USD per 1k tokens.
RegisteredModels == <<
    [model_id |-> "gpt-4o", provider |-> "openai",
     context_window |-> 128000, cost_input |-> 500, cost_output |-> 1500,
     p50_latency_ms |-> 900, quality_score |-> 95,
     privacy_levels |-> {"standard"},
     supports_streaming |-> TRUE, supports_json_mode |-> TRUE],
    [model_id |-> "gpt-4o-mini", provider |-> "openai",
     context_window |-> 128000, cost_input |-> 15, cost_output |-> 60,
     p50_latency_ms |-> 400, quality_score |-> 80,
     privacy_levels |-> {"standard"},
     supports_streaming |-> TRUE, supports_json_mode |-> TRUE],
    [model_id |-> "gpt-4o", provider |-> "azure_openai",
     context_window |-> 128000, cost_input |-> 500, cost_output |-> 1500,
     p50_latency_ms |-> 1100, quality_score |-> 95,
     privacy_levels |-> {"standard", "sensitive"},
     supports_streaming |-> TRUE, supports_json_mode |-> TRUE],
    [model_id |-> "claude-3-5-sonnet", provider |-> "aws_bedrock",
     context_window |-> 200000, cost_input |-> 300, cost_output |-> 1500,
     p50_latency_ms |-> 1200, quality_score |-> 93,
     privacy_levels |-> {"standard", "sensitive"},
     supports_streaming |-> TRUE, supports_json_mode |-> FALSE],
    [model_id |-> "llama3.1:8b", provider |-> "ollama",
     context_window |-> 128000, cost_input |-> 0, cost_output |-> 0,
     p50_latency_ms |-> 2000, quality_score |-> 70,
     privacy_levels |-> {"standard", "sensitive", "private"},
     supports_streaming |-> TRUE, supports_json_mode |-> FALSE] >>

\* ModelRequirements a caller may pass
Requirements ==
    [privacy           : {"standard", "sensitive", "private"},
     strategy          : {"lowest_cost", "lowest_latency", "highest_quality"},
     max_input_tokens  : {4096, 150000},
     require_json_mode : BOOLEAN,
     require_streaming : {TRUE}]

\* sort keys of ModelRouter.select / _build_fallback_list
ByCost(a, b) ==
    \/ a.cost_input < b.cost_input
    \/ a.cost_input = b.cost_input /\ a.cost_output < b.cost_output
ByLatency(a, b) == a.p50_latency_ms < b.p50_latency_ms
ByQuality(a, b) == a.quality_score > b.quality_score

\* "a sorts strictly before b" under the given ordering
Before(order, a, b) ==
    IF order = "lowest_cost" THEN ByCost(a, b)
    ELSE IF order = "lowest_latency" THEN ByLatency(a, b)
    ELSE ByQuality(a, b)

\* list.sort(key=...) is stable: insertion sort that never passes an equal key
RECURSIVE InsertSorted(_, _, _)
InsertSorted(s, x, order) ==
    IF s = <<>> THEN <<x>>
    ELSE IF Before(order, x, Head(s)) THEN <<x>> \o s
    ELSE <<Head(s)>> \o InsertSorted(Tail(s), x, order)

RECURSIVE StableSort(_, _)
StableSort(s, order) ==
    IF s = <<>> THEN <<>>
    ELSE InsertSorted(StableSort(SubSeq(s, 1, Len(s) - 1), order),
                      s[Len(s)], order)

\* ModelRouter.select: the candidate list, sorted by strategy
SelectCandidates(reqs) ==
    LET c == SelectSeq(RegisteredModels, LAMBDA spec :
                 /\ reqs.privacy \in spec.privacy_levels
                 /\ spec.context_window >= reqs.max_input_tokens
                 /\ (~reqs.require_json_mode \/ spec.supports_json_mode)
                 /\ (~reqs.require_streaming \/ spec.supports_streaming))
    IN  StableSort(c, reqs.strategy)

BuildFallbackListAnyPrivacy(reqs) ==
    LET primary == Head(SelectCandidates(reqs))
        others  == SelectSeq(RegisteredModels, LAMBDA s :
                       /\ (s.model_id # primary.model_id \/ s.provider # primary.provider)
                       /\ s.context_window >= reqs.max_input_tokens)
    IN  <<primary>> \o StableSort(others, "highest_quality")

\* FallbackChain._build_fallback_list: primary, then every OTHER model that
\* satisfies privacy and context window, by quality descending
BuildFallbackList(reqs) ==
    LET primary == Head(SelectCandidates(reqs))
        others  == SelectSeq(RegisteredModels, LAMBDA s :
                       /\ (s.model_id # primary.model_id \/ s.provider # primary.provider)
                       /\ reqs.privacy \in s.privacy_levels
                       /\ s.context_window >= reqs.max_input_tokens)
    IN  <<primary>> \o StableSort(others, "highest_quality")

\* the requirements the modelled callers pass to the gateway: a latency-
\* optimised standard request (chain of all five models, the first two of
\* them served by the same provider), a long-context request that only one model
\* can serve, and one that no registered model can serve
InvokeRequirements ==
    { [privacy |-> "standard", strategy |-> "lowest_latency",
       max_input_tokens |-> 4096, require_json_mode |-> FALSE,
       require_streaming |-> TRUE],
      [privacy |-> "standard", strategy |-> "highest_quality",
       max_input_tokens |-> 150000, require_json_mode |-> FALSE,
       require_streaming |-> TRUE],
      [privacy |-> "private", strategy |-> "highest_quality",
       max_input_tokens |-> 4096, require_json_mode |-> TRUE,
       require_streaming |-> TRUE] }

\* Exception class names a provider SDK raises, as their CamelCase words
ExcNames ==
    { <<"Rate", "Limit", "Error">>,              \* 429
      <<"Authentication", "Error">>,             \* 401
      <<"Bad", "Request", "Error">> }            \* 400

NoExc == <<>>
TimeoutError == <<"Timeout", "Error">>      \* asyncio.TimeoutError

\* the client errors the chain must not fail over on: 4xx other than
\* rate-limit, authentication failure
ClientErrors == { <<"Authentication", "Error">>, <<"Bad", "Request", "Error">> }

\* _RETRYABLE_EXCEPTION_TYPES
RETRYABLE_EXCEPTION_TYPES ==
    { <<"Rate", "Limit", "Error">>, <<"Service", "Unavailable", "Error">>,
      <<"API", "Timeout", "Error">>, <<"API", "Connection", "Error">>,
      <<"Internal", "Server", "Error">>, <<"Connect", "Timeout">>,
      <<"Read", "Timeout">>, <<"Remote", "Protocol", "Error">> }

EndsWith(name, suffix) ==
    /\ Len(suffix) <= Len(name)
    /\ SubSeq(name, Len(name) - Len(suffix) + 1, Len(name)) = suffix

IsRetryableAlways(name) == TRUE
\* _is_retryable: the class name ends with one of the retryable names
IsRetryable(name) == \E r \in RETRYABLE_EXCEPTION_TYPES : EndsWith(name, r)

\* ---- circuit breaker ---------------------------------------------------
\* The chain runs on the asyncio event loop: everything between two awaits
\* is one atomic step.  A step therefore works on local copies F (failures)
\* and U (open_until) of the breaker state and publishes them at its end.

CircuitBlocksThreshold4(F, U, p) == F[p] >= OPEN_THRESHOLD + 1 /\ now < U[p]
\* _is_circuit_open, return value
CircuitBlocks(F, U, p) == F[p] >= OPEN_THRESHOLD /\ now < U[p]

FailuresAfterCheckAlways(F, U, p) == [F EXCEPT ![p] = 0]

\* _is_circuit_open, side effect: the window has passed -> failures = 0
FailuresAfterCheck(F, U, p) ==
    IF F[p] >= OPEN_THRESHOLD /\ now >= U[p] THEN [F EXCEPT ![p] = 0] ELSE F

\* the `for spec in self._specs` loop from position i up to the next await:
\* open circuits are skipped; idx = Len(specs) + 1 when the loop runs out
RECURSIVE Advance(_, _, _, _)
Advance(F, U, specs, i) ==
    IF i > Len(specs)
      THEN [idx |-> i, failures |-> F, skipped |-> {}]
      ELSE IF CircuitBlocks(F, U, specs[i].provider)
             THEN LET a == Advance(F, U, specs, i + 1)
                  IN  [a EXCEPT !.skipped = @ \cup {i}]
             ELSE [idx |-> i,
                   failures |-> FailuresAfterCheck(F, U, specs[i].provider),
                   skipped |-> {}]

IdleReq == [pc |-> "idle", specs |-> <<>>, idx |-> 0, skipped |-> {},
            exc |-> NoExc]

NoCall == [result |-> None, exc |-> NoExc, untried |-> 0]

\* what the caller of a finished ainvoke() observes: the result, the
\* exception re-raised to it, how many specs of the chain were never reached
Finished(req, result, exc) ==
    [result  |-> result, exc |-> exc,
     untried |-> IF req.idx > Len(req.specs) THEN 0 ELSE Len(req.specs) - req.idx]

CurSpec(r) == llmReq[r].specs[llmReq[r].idx]

\* the request after the loop moved on as described by a = Advance(...):
\* awaiting the next provider, unless the loop ran out
Moved(req, a, exc) ==
    [req EXCEPT !.pc = IF a.idx > Len(req.specs) THEN "idle" ELSE "await",
                !.idx = a.idx, !.exc = exc, !.skipped = @ \cup a.skipped]

\* coroutine slots are taken in order: r2 runs only next to a busy r1
SlotFree(r) ==
    /\ llmReq[r].pc = "idle"
    /\ r = "r1" \/ llmReq["r1"].pc = "await"

\* ---- actions -----------------------------------------------------------
\* FallbackChain(requirements) is built, ainvoke() runs to its first await.
\* ModelRouter.select raises when no model qualifies; the loop raises
\* RuntimeError("All LLM providers failed") when it runs out.
StartInvoke(r, reqs) ==
    /\ SlotFree(r)
    /\ llmCalls < MaxCalls
    /\ llmCalls' = llmCalls + 1
    /\ IF SelectCandidates(reqs) = <<>>
         THEN /\ llmLast' = [NoCall EXCEPT !.result = "no_model"]
              /\ UNCHANGED <<cbFailures, llmReq>>
         ELSE LET specs == BuildFallbackList(reqs)
                  a     == Advance(cbFailures, cbOpenUntil, specs, 1)
                  m     == Moved([IdleReq EXCEPT !.specs = specs], a, NoExc)
              IN  /\ cbFailures' = a.failures
                  /\ IF m.pc = "idle"
                       THEN /\ llmLast' = Finished(m, "all_failed", NoExc)
                            /\ UNCHANGED llmReq
                       ELSE /\ llmReq' = [llmReq EXCEPT ![r] = m]
                            /\ UNCHANGED llmLast
    /\ UNCHANGED <<cbOpenUntil, now, llmFailed, cbStreak, cbOpenedAt, vsVars, docVars, auVars, jwVars,
                   gwVars, mpVars, auVars, jwVars, apiVars>>

\* the awaited provider answers: _record_success, return result.content
AttemptOk(r) ==
    /\ llmReq[r].pc = "await"
    /\ cbFailures' = [cbFailures EXCEPT ![CurSpec(r).provider] = 0]
    /\ cbStreak'   = [cbStreak   EXCEPT ![CurSpec(r).provider] = 0]
    /\ llmLast' = Finished(llmReq[r], "ok", NoExc)
    /\ llmReq'  = [llmReq EXCEPT ![r] = IdleReq]
    /\ UNCHANGED <<cbOpenUntil, now, llmCalls, llmFailed, cbOpenedAt, vsVars, docVars, auVars, jwVars,
                   gwVars, mpVars, auVars, jwVars, apiVars>>

\* _record_failure for the awaited provider, then on to the next spec
FailOver(r, exc) ==
    LET p == CurSpec(r).provider
        F == [cbFailures  EXCEPT ![p] = @ + 1]
        U == [cbOpenUntil EXCEPT ![p] = now + RESET_SECONDS]
        a == Advance(F, U, llmReq[r].specs, llmReq[r].idx + 1)
        m == Moved(llmReq[r], a, exc)
    IN  /\ llmFailed < MaxFailures
        /\ llmFailed'   = llmFailed + 1
        /\ cbFailures'  = a.failures
        /\ cbOpenUntil' = U
        /\ cbStreak'    = [cbStreak EXCEPT ![p] = @ + 1]
        /\ cbOpenedAt'  = [cbOpenedAt EXCEPT ![p] =
                              IF F[p] >= OPEN_THRESHOLD THEN now ELSE @]
        /\ IF m.pc = "idle"
             THEN /\ llmLast' = Finished(m, "all_failed", NoExc)
                  /\ llmReq'  = [llmReq EXCEPT ![r] = IdleReq]
             ELSE /\ llmReq' = [llmReq EXCEPT ![r] = m]
                  /\ UNCHANGED llmLast

\* except asyncio.TimeoutError (wait_for gave up, or the SDK timed out)
AttemptTimeout(r) ==
    /\ llmReq[r].pc = "await"
    /\ FailOver(r, TimeoutError)
    /\ UNCHANGED <<now, llmCalls, vsVars, docVars, auVars, jwVars,
                   gwVars, mpVars, auVars, jwVars, apiVars>>

\* except Exception as exc: re-raise unless retryable
AttemptError(r, exc) ==
    /\ llmReq[r].pc = "await"
    /\ IF ~IsRetryable(exc)
         THEN /\ llmLast' = Finished(llmReq[r], "raised", exc)
              /\ llmReq'  = [llmReq EXCEPT ![r] = IdleReq]
              /\ UNCHANGED <<cbFailures, cbOpenUntil, cbStreak, cbOpenedAt,
                             llmFailed>>
         ELSE FailOver(r, exc)
    /\ UNCHANGED <<now, llmCalls, vsVars, docVars, auVars, jwVars,
                   gwVars, mpVars, auVars, jwVars, apiVars>>

\* time passes
Tick ==
    /\ now + TimeStep <= MaxNow
    /\ now' = now + TimeStep
    /\ UNCHANGED <<cbFailures, cbOpenUntil, llmReq, llmLast, llmCalls,
                   llmFailed, cbStreak, cbOpenedAt, vsVars, docVars,
                   gwVars, mpVars, auVars, jwVars, apiVars>>

(***************************************************************************)
(* ===========================  LLM GATEWAY  ============================= *)
(*                                                                         *)
(* LLMGateway.invoke and LLMGateway.stream: router, fallback chain (the    *)
(* breaker state is the module-level one the chain above uses), then cost  *)
(* tracking.  One gateway call is in flight at a time, and the clock is   *)
(* held: the breaker's window is exercised by the chain above.             *)
(***************************************************************************)
MaxGwCalls == 1          \* gateway calls started in one behaviour
MaxChunks  == 2          \* content deltas delivered to the caller of one call

GwModes == {"invoke", "stream"}

\* PrivacyLevel: PRIVATE is local inference only (Ollama); SENSITIVE rules
\* out third-party APIs, leaving the GDPR-region providers and local inference
LocalProviders == {"ollama"}
GdprProviders  == {"azure_openai", "aws_bedrock"} \cup LocalProviders

\* conflict key of saas.token_usage_logs, without tenant, user and month
UsageKey(spec) == <<spec.model_id, spec.provider>>
UsageKeys == {UsageKey(RegisteredModels[i]) : i \in 1..Len(RegisteredModels)}
NoKey == <<>>

IdleGw == [pc |-> "idle", mode |-> None, privacy |-> None, spec |-> NoKey,
           specs |-> <<>>, idx |-> 0, chunks |-> <<>>, failed |-> {},
           reqs |-> None]

\* outcome; the content deltas the caller received, each tagged with the
\* chain position of the provider that produced it; the model that produced
\* the answer; the chain positions that failed; the key of the usage upsert
NoGwCall == [outcome |-> None, chunks |-> <<>>, answered |-> NoKey,
             failed |-> {}, tracked |-> NoKey]

GwEnded(outcome, answered, tracked) ==
    [outcome |-> outcome, chunks |-> gw.chunks, answered |-> answered,
     failed |-> gw.failed, tracked |-> tracked]

\* the router's pick and the chain of every requirement a caller can pass;
\* <<>> where ModelRouter.select raises
Selected == [reqs \in Requirements |-> SelectCandidates(reqs)]
Chains   == [reqs \in Requirements |->
                IF Selected[reqs] = <<>> THEN <<>> ELSE BuildFallbackList(reqs)]

\* invoke()/stream() up to the first await of the chain
GwStart(mode, reqs) ==
    /\ gw.pc = "idle"
    /\ gwCalls < MaxGwCalls
    /\ gwCalls' = gwCalls + 1
    /\ IF Selected[reqs] = <<>>
         THEN /\ gwLast' = [NoGwCall EXCEPT !.outcome = "no_model"]
              /\ UNCHANGED <<gw, cbFailures>>
         ELSE LET specs == Chains[reqs]
                  a     == Advance(cbFailures, cbOpenUntil, specs, 1)
              IN  /\ cbFailures' = a.failures
                  /\ IF a.idx > Len(specs)
                       THEN /\ gwLast' = [NoGwCall EXCEPT !.outcome = "all_failed"]
                            /\ UNCHANGED gw
                       ELSE /\ gw' = [pc |-> "await", mode |-> mode,
                                      privacy |-> reqs.privacy,
                                      spec |-> UsageKey(Head(Selected[reqs])),
                                      specs |-> specs,
                                      idx |-> a.idx, chunks |-> <<>>,
                                      failed |-> {}, reqs |-> reqs]
                            /\ gwLast' = NoGwCall
    /\ UNCHANGED <<cbOpenUntil, now, llmReq, llmLast, llmCalls, llmFailed,
                   cbStreak, cbOpenedAt, tokenUsage, vsVars, docVars, auVars, jwVars, mpVars,
                   apiVars>>

\* astream: the provider's stream delivers a chunk, which is yielded
GwChunk ==
    /\ gw.pc = "await"
    /\ gw.mode = "stream"
    /\ Len(gw.chunks) < MaxChunks
    /\ gw' = [gw EXCEPT !.chunks = Append(@, gw.idx)]
    /\ UNCHANGED <<gwLast, gwCalls, tokenUsage, llmVars, vsVars, docVars, auVars, jwVars, mpVars,
            apiVars>>

\* the provider answers (ainvoke returns, or its stream ends):
\* _record_success, then _post_process with the spec the gateway selected
GwAnswer(tenant, dbOk) ==
    /\ gw.pc = "await"
    /\ LET p       == gw.specs[gw.idx].provider
           tracked == IF tenant # None /\ dbOk THEN gw.spec ELSE NoKey
       IN  /\ cbFailures' = [cbFailures EXCEPT ![p] = 0]
           /\ cbStreak'   = [cbStreak   EXCEPT ![p] = 0]
           /\ tokenUsage' = IF tracked = NoKey THEN tokenUsage
                            ELSE [tokenUsage EXCEPT ![tracked] = @ + 1]
           /\ gwLast' = GwEnded("ok", UsageKey(gw.specs[gw.idx]), tracked)
    /\ gw' = IdleGw
    /\ UNCHANGED <<cbOpenUntil, now, llmReq, llmLast, llmCalls, llmFailed,
                   cbOpenedAt, gwCalls, vsVars, docVars, auVars, jwVars, mpVars,
                   apiVars>>

\* _record_failure for the awaited provider, then on to the next spec
GwFailOver ==
    LET p == gw.specs[gw.idx].provider
        F == [cbFailures  EXCEPT ![p] = @ + 1]
        U == [cbOpenUntil EXCEPT ![p] = now + RESET_SECONDS]
        a == Advance(F, U, gw.specs, gw.idx + 1)
    IN  /\ llmFailed < MaxFailures
        /\ llmFailed'   = llmFailed + 1
        /\ cbFailures'  = a.failures
        /\ cbOpenUntil' = U
        /\ cbStreak'    = [cbStreak EXCEPT ![p] = @ + 1]
        /\ cbOpenedAt'  = [cbOpenedAt EXCEPT ![p] =
                              IF F[p] >= OPEN_THRESHOLD THEN now ELSE @]
        /\ IF a.idx > Len(gw.specs)
             THEN /\ gwLast' = [GwEnded("all_failed", NoKey, NoKey)
                                   EXCEPT !.failed = @ \cup {gw.idx}]
                  /\ gw' = IdleGw
             ELSE /\ gw' = [gw EXCEPT !.idx = a.idx,
                                      !.failed = @ \cup {gw.idx}]
                  /\ UNCHANGED gwLast

\* except asyncio.TimeoutError
GwTimeout ==
    /\ gw.pc = "await"
    /\ GwFailOver
    /\ UNCHANGED <<now, llmReq, llmLast, llmCalls, gwCalls,
                   tokenUsage, vsVars, docVars, auVars, jwVars, mpVars,
                   apiVars>>

\* except Exception as exc: re-raise unless retryable
GwError(exc) ==
    /\ gw.pc = "await"
    /\ IF ~IsRetryable(exc)
         THEN /\ gwLast' = GwEnded("raised", NoKey, NoKey)
              /\ gw' = IdleGw
              /\ UNCHANGED <<cbFailures, cbOpenUntil, cbStreak, cbOpenedAt,
                             llmFailed>>
         ELSE GwFailOver
    /\ UNCHANGED <<now, llmReq, llmLast, llmCalls, gwCalls,
                   tokenUsage, vsVars, docVars, auVars, jwVars, mpVars,
                   apiVars>>

(***************************************************************************)
(* ===================  UPLOAD: SIZE LIMIT AND MULTIPART  ================ *)
(*                                                                         *)
(* POST /documents/upload up to the end of streaming_multipart_upload:     *)
(* the endpoint's and the service's early checks, the magic-byte sniff,    *)
(* then create / upload_part / complete / abort against S3.  Every S3      *)
(* call either succeeds, raises botocore's ClientError or raises another   *)
(* exception (a connection or read time-out is a BotoCoreError, not a      *)
(* ClientError).  Steps 6-9 of the pipeline are IngestProbe, IngestInsert  *)
(* and IngestCommit below.                                                 *)
(***************************************************************************)
MaxMpUploads == 1        \* upload requests per behaviour

MAX_FILE_SIZE_BYTES == 52428800     \* 50 * 1024 * 1024
CHUNK_SIZE          == 5242880      \* 5 * 1024 * 1024
ENDPOINT_SLACK      == 8192         \* the endpoint's allowance for form framing
SNIFF_BYTES         == 8            \* magic-byte peek

\* no Content-Length header
NoLength == 0

\* file sizes uploaded: empty, one part, the limit, one byte over
FileSizes == {0, CHUNK_SIZE, MAX_FILE_SIZE_BYTES, MAX_FILE_SIZE_BYTES + 1}

\* bytes a multipart/form-data body adds around the file
FormFraming == {200}

\* Content-Length values a request carries for a file of that size: none
\* (chunked transfer), the file size itself (a caller of the service that
\* passes the size), the size of the form body, or a forged 60 MiB
DeclaredLengths(size) ==
    {NoLength, size, 60 * 1024 * 1024} \cup {size + f : f \in FormFraming}

S3Outcomes == {"ok", "ClientError", "OtherError"}

IdleMp == [pc |-> "idle", size |-> 0, declared |-> NoLength, offset |-> 0,
           total |-> 0, parts |-> 0, exc |-> None]

NoS3Upload == [state |-> None, parts |-> 0]

\* the response, with the request it answers and what the request did
NoMpResponse == [status |-> 0, code |-> None, size |-> 0,
                 declared |-> NoLength, valid |-> FALSE, read |-> 0,
                 initiated |-> FALSE, aborts |-> 0]

\* endpoint: content_length and content_length > MAX_FILE_SIZE_BYTES + 8192
EndpointTooLarge(declared) ==
    declared # NoLength /\ declared > MAX_FILE_SIZE_BYTES + ENDPOINT_SLACK

DeclaredTooLargeWithSlack(declared) == EndpointTooLarge(declared)

\* ingest step 2: content_length and content_length > MAX_FILE_SIZE_BYTES
DeclaredTooLarge(declared) ==
    declared # NoLength /\ declared > MAX_FILE_SIZE_BYTES

\* the response of a request that ends now
MpResponse(status, code) ==
    [mpLast EXCEPT !.status = status, !.code = code]

\* the HTTP answer to an exception leaving streaming_multipart_upload:
\* an HTTPException keeps its status, anything else becomes 500
RaisedResponse(exc) ==
    IF exc = "413" THEN MpResponse(413, "FILE_TOO_LARGE")
    ELSE IF exc = "400" THEN MpResponse(400, "MISSING_FILE")
    ELSE MpResponse(500, "STORAGE_ERROR")

\* upload_document and ingest steps 1-2, up to the first await
MpRequest(size, declared, nameOk, permsOk, hasFile) ==
    /\ mp.pc = "idle"
    /\ mpCount < MaxMpUploads
    /\ mpCount' = mpCount + 1
    /\ LET fresh == [NoMpResponse EXCEPT !.size = size, !.declared = declared,
                                         !.valid = nameOk /\ permsOk]
           reject(status, code) ==
               /\ mpLast' = [fresh EXCEPT !.status = status, !.code = code]
               /\ UNCHANGED mp
       IN  IF EndpointTooLarge(declared) THEN reject(413, "FILE_TOO_LARGE")
           ELSE IF ~permsOk THEN reject(400, "INVALID_PERMISSIONS_FORMAT")
           ELSE IF ~nameOk THEN reject(400, "INVALID_DOCUMENT_NAME")
           ELSE IF DeclaredTooLarge(declared) THEN reject(413, "FILE_TOO_LARGE")
           ELSE IF ~hasFile THEN reject(400, "MISSING_FILE")
           ELSE /\ mp' = [IdleMp EXCEPT !.pc = "sniff", !.size = size,
                                        !.declared = declared]
                /\ mpLast' = fresh
    /\ s3Upload' = NoS3Upload
    /\ s3Calls' = 0
    /\ UNCHANGED <<vsVars, llmVars, docVars, auVars, jwVars, gwVars, apiVars>>

\* ingest steps 3-4: peek at the first 8 bytes, seek back, validate the type
MpSniff(typeOk) ==
    /\ mp.pc = "sniff"
    /\ LET head == Min(SNIFF_BYTES, mp.size)
           did  == [mpLast EXCEPT !.read = @ + head]
       IN  IF head = 0
             THEN /\ mpLast' = [did EXCEPT !.status = 400, !.code = "MISSING_FILE"]
                  /\ mp' = IdleMp
             ELSE IF ~typeOk
                    THEN /\ mpLast' = [did EXCEPT !.status = 400,
                                                  !.code = "UNSUPPORTED_FILE_TYPE"]
                         /\ mp' = IdleMp
                    ELSE /\ mpLast' = did
                         /\ mp' = [mp EXCEPT !.pc = "create"]
    /\ UNCHANGED <<s3Upload, s3Calls, mpCount, vsVars, llmVars, docVars, auVars, jwVars, gwVars,
            apiVars>>

\* step 1 of the uploader: create_multipart_upload; a failure is re-raised
MpCreate(outcome) ==
    /\ mp.pc = "create"
    /\ s3Calls' = s3Calls + 1
    /\ IF outcome = "ok"
         THEN /\ s3Upload' = [state |-> "open", parts |-> 0]
              /\ mpLast' = [mpLast EXCEPT !.initiated = TRUE]
              /\ mp' = [mp EXCEPT !.pc = "read"]
         ELSE /\ mpLast' = RaisedResponse(outcome)
              /\ mp' = IdleMp
              /\ UNCHANGED s3Upload
    /\ UNCHANGED <<mpCount, vsVars, llmVars, docVars, auVars, jwVars, gwVars,
            apiVars>>

\* step 2, from _iter_chunks to the next S3 call: the 50 MB guard, the
\* empty-file guard once the stream has ended
MpReadChunk ==
    /\ mp.pc = "read"
    /\ LET n     == Min(CHUNK_SIZE, mp.size - mp.offset)
           total == mp.total + n
       IN  /\ mpLast' = [mpLast EXCEPT !.read = @ + n]
           /\ IF n = 0
                THEN IF mp.parts = 0 \/ mp.total = 0
                       THEN mp' = [mp EXCEPT !.pc = "abort", !.exc = "400"]
                       ELSE mp' = [mp EXCEPT !.pc = "complete"]
                ELSE IF total > MAX_FILE_SIZE_BYTES
                       THEN mp' = [mp EXCEPT !.pc = "abort", !.exc = "413",
                                             !.offset = @ + n, !.total = total]
                       ELSE mp' = [mp EXCEPT !.pc = "part", !.offset = @ + n,
                                             !.total = total, !.parts = @ + 1]
    /\ UNCHANGED <<s3Upload, s3Calls, mpCount, vsVars, llmVars, docVars, auVars, jwVars, gwVars,
            apiVars>>

\* upload_part: any exception goes to the handlers that abort
MpUploadPart(outcome) ==
    /\ mp.pc = "part"
    /\ s3Calls' = s3Calls + 1
    /\ IF outcome = "ok"
         THEN /\ s3Upload' = [s3Upload EXCEPT !.parts = @ + 1]
              /\ mp' = [mp EXCEPT !.pc = "read"]
         ELSE /\ mp' = [mp EXCEPT !.pc = "abort", !.exc = outcome]
              /\ UNCHANGED s3Upload
    /\ UNCHANGED <<mpLast, mpCount, vsVars, llmVars, docVars, auVars, jwVars, gwVars,
            apiVars>>

\* _abort_multipart_upload, then the pending exception is re-raised: a
\* ClientError of the abort is logged and dropped, another exception of the
\* abort replaces the pending one
MpAbort(outcome) ==
    /\ mp.pc = "abort"
    /\ s3Calls' = s3Calls + 1
    /\ s3Upload' = IF outcome = "ok" THEN [state |-> "aborted", parts |-> 0]
                   ELSE s3Upload
    /\ mpLast' = [RaisedResponse(IF outcome = "OtherError" THEN outcome ELSE mp.exc)
                     EXCEPT !.aborts = @ + 1]
    /\ mp' = IdleMp
    /\ UNCHANGED <<mpCount, vsVars, llmVars, docVars, auVars, jwVars, gwVars,
            apiVars>>

\* step 3: complete_multipart_upload; only a ClientError is caught, and
\* answered by an abort
MpComplete(outcome) ==
    /\ mp.pc = "complete"
    /\ s3Calls' = s3Calls + 1
    /\ IF outcome = "ok"
         THEN /\ s3Upload' = [s3Upload EXCEPT !.state = "completed"]
              /\ mpLast' = MpResponse(202, "STORED")
              /\ mp' = IdleMp
         ELSE IF outcome = "ClientError"
                THEN /\ mp' = [mp EXCEPT !.pc = "abort", !.exc = outcome]
                     /\ UNCHANGED <<s3Upload, mpLast>>
                ELSE /\ mpLast' = RaisedResponse(outcome)
                     /\ mp' = IdleMp
                     /\ UNCHANGED s3Upload
    /\ UNCHANGED <<mpCount, vsVars, llmVars, docVars, auVars, jwVars, gwVars,
            apiVars>>

\* the request's task is cancelled while it awaits the next chunk or an S3
\* call of the open upload: asyncio.CancelledError is a BaseException, no
\* handler of the uploader or of ingest catches it.  No response is sent.
MpCancel ==
    /\ mp.pc \in {"read", "part", "complete"}
    /\ mpLast' = MpResponse(-1, "CANCELLED")
    /\ mp' = IdleMp
    /\ UNCHANGED <<s3Upload, s3Calls, mpCount, vsVars, llmVars, docVars, auVars, jwVars, gwVars,
            apiVars>>

(***************************************************************************)
(* ===============  UPLOAD: VALIDATION AND THE AUDIT TRAIL  ============== *)
(*                                                                         *)
(* One upload request at a time, from the name check to the commit of its  *)
(* transaction.  _audit adds a row to the request's session; get_db makes  *)
(* the session's rows durable when the handler returns and rolls them back *)
(* when it raises.                                                         *)
(***************************************************************************)
MaxAuRequests == 2       \* upload requests per behaviour

\* ---- _detect_mime, _file_ext -------------------------------------------
\* bytes are written as one-character strings, "x03" for a byte that is not
\* printable
MAGIC_MAP ==
    << [magic |-> <<"%", "P", "D", "F">>, mime |-> "application/pdf"],
       [magic |-> <<"P", "K", "x03", "x04">>,
        mime  |-> "application/vnd.openxmlformats-officedocument.wordprocessingml.document"],
       [magic |-> <<"xd0", "xcf", "x11", "xe0", "xa1", "xb1", "x1a", "xe1">>,
        mime  |-> "application/msword"] >>

ALLOWED_CONTENT_TYPES ==
    {"application/pdf",
     "application/vnd.openxmlformats-officedocument.wordprocessingml.document",
     "application/msword", "text/plain", "text/markdown"}

\* extensions are written without their dot
ALLOWED_EXTENSIONS == {"pdf", "docx", "doc", "txt", "md"}

\* the first 8 bytes of the files uploaded: a PDF, a DOCX, a legacy DOC, a
\* Windows executable, plain text, a file shorter than a signature, an
\* empty file
FileHeads ==
    { <<"%", "P", "D", "F", "-", "1", ".", "4">>,
      <<"P", "K", "x03", "x04", "x14", "x00", "x06", "x00">>,
      <<"xd0", "xcf", "x11", "xe0", "xa1", "xb1", "x1a", "xe1">>,
      <<"M", "Z", "x90", "x00", "x03", "x00", "x00", "x00">>,
      <<"h", "e", "l", "l", "o", " ", "w", "o">>,
      <<"%", "P">>,
      <<>> }

\* file names, as the parts between their dots
FileNames ==
    { <<"report", "pdf">>, <<"report", "PDF">>, <<"report", "doc">>,
      <<"report", "docx">>, <<"notes", "txt">>, <<"notes", "md">>,
      <<"setup", "exe">>, <<"report", "pdf", "exe">>, <<"README">> }

\* str.lower() on the extensions used
Lower(s) == IF s = "PDF" THEN "pdf" ELSE s

StartsWith(bytes, prefix) ==
    /\ Len(bytes) >= Len(prefix)
    /\ SubSeq(bytes, 1, Len(prefix)) = prefix

\* _file_ext: the lowercased text after the last dot, "" without a dot
FileExt(filename) ==
    IF Len(filename) >= 2 THEN Lower(filename[Len(filename)]) ELSE ""

\* mimetypes.guess_type, by extension
GuessType(ext) ==
    CASE ext = "pdf"  -> "application/pdf"
      [] ext = "doc"  -> "application/msword"
      [] ext = "docx" -> "application/vnd.openxmlformats-officedocument.wordprocessingml.document"
      [] ext = "txt"  -> "text/plain"
      [] ext = "md"   -> "text/markdown"
      [] ext = "exe"  -> "application/x-msdos-program"
      [] OTHER        -> None

\* _detect_mime: the first signature that matches, else text/plain for
\* .txt and .md, else the guess from the name, else octet-stream
DetectMime(filename, head_8) ==
    LET hits == {i \in 1..Len(MAGIC_MAP) : StartsWith(head_8, MAGIC_MAP[i].magic)}
    IN  IF hits # {}
          THEN MAGIC_MAP[CHOOSE i \in hits : \A j \in hits : i <= j].mime
          ELSE IF FileExt(filename) \in {"txt", "md"} THEN "text/plain"
          ELSE IF GuessType(FileExt(filename)) # None
                 THEN GuessType(FileExt(filename))
                 ELSE "application/octet-stream"

\* step 4: the detected type, then the extension, against the allowlists
TypeError(filename, head_8) ==
    IF DetectMime(filename, head_8) \notin ALLOWED_CONTENT_TYPES
      THEN "UNSUPPORTED_FILE_TYPE"
      ELSE IF FileExt(filename) \notin ALLOWED_EXTENSIONS
             THEN "UNSUPPORTED_FILE_TYPE"
             ELSE None

\* ---- the request and its transaction -----------------------------------
AuRequests == 1..MaxAuRequests

IdleAu == [pc |-> "idle", pending |-> <<>>]

NoAuResponse == [status |-> 0, code |-> None, filename |-> <<>>,
                 head |-> <<>>, sniffed |-> FALSE, failure |-> None,
                 published |-> None]

\* a row of saas.audit_logs written by request number req
AuditRow(action, req) == [action |-> action, req |-> req]

\* _audit: db.add on the request's session
Audit(pending, action) == Append(pending, AuditRow(action, auCount))

\* the exit of get_db with the committed rows dropped on a rollback
GetDbExitTruncating(rows, pending, raised) ==
    IF raised THEN <<>> ELSE rows \o pending

\* the exit of get_db: session.begin() commits the session's rows when the
\* handler returned, rolls them back when it raised
GetDbExit(rows, pending, raised) ==
    IF raised THEN rows ELSE rows \o pending

\* the handler raises an HTTPException: the answer, and the rollback
AuRaise(status, code, pending, failure) ==
    /\ auLast' = [auLast EXCEPT !.status = status, !.code = code,
                                !.failure = failure]
    /\ auditRows' = GetDbExit(auditRows, pending, TRUE)
    /\ au' = IdleAu
    /\ UNCHANGED auDocs

\* steps 1-4 of ingest and the upload_attempt entry that follows them
AuStart(filename, head_8, nameOk, tooLarge) ==
    /\ au.pc = "idle"
    /\ auCount < MaxAuRequests
    /\ auCount' = auCount + 1
    /\ LET fresh == [NoAuResponse EXCEPT !.filename = filename, !.head = head_8]
           reject(status, code, sniffed) ==
               /\ auLast' = [fresh EXCEPT !.status = status, !.code = code,
                                          !.sniffed = sniffed]
               /\ auditRows' = GetDbExit(auditRows, <<>>, TRUE)
               /\ UNCHANGED au
       IN  IF ~nameOk THEN reject(400, "INVALID_DOCUMENT_NAME", FALSE)
           ELSE IF tooLarge THEN reject(413, "FILE_TOO_LARGE", FALSE)
           ELSE IF head_8 = <<>> THEN reject(400, "MISSING_FILE", TRUE)
           ELSE IF TypeError(filename, head_8) # None
                  THEN reject(400, TypeError(filename, head_8), TRUE)
           ELSE /\ au' = [pc |-> "upload",
                          pending |-> <<AuditRow("document.upload_attempt",
                                                 auCount + 1)>>]
                /\ auLast' = [fresh EXCEPT !.sniffed = TRUE]
                /\ UNCHANGED auditRows
    /\ UNCHANGED <<auDocs, vsVars, llmVars, docVars, gwVars, mpVars, jwVars, apiVars>>

\* step 5: streaming_multipart_upload returns or raises; both handlers add
\* document.upload_failed and raise an HTTPException
AuUpload(outcome) ==
    /\ au.pc = "upload"
    /\ IF outcome = "ok"
         THEN /\ au' = [au EXCEPT !.pc = "probe"]
              /\ UNCHANGED <<auLast, auditRows, auDocs>>
         ELSE AuRaise(IF outcome = "HTTPException" THEN 413 ELSE 500,
                      IF outcome = "HTTPException" THEN "FILE_TOO_LARGE"
                                                   ELSE "STORAGE_ERROR",
                      Audit(au.pending, "document.upload_failed"),
                      "document.upload_failed")
    /\ UNCHANGED <<auCount, vsVars, llmVars, docVars, gwVars, mpVars, jwVars,
            apiVars>>

\* step 6: the duplicate probe; a hit adds document.duplicate_rejected and
\* raises 409
AuProbe(duplicate) ==
    /\ au.pc = "probe"
    /\ IF duplicate
         THEN AuRaise(409, "DUPLICATE_DOCUMENT",
                      Audit(au.pending, "document.duplicate_rejected"),
                      "document.duplicate_rejected")
         ELSE /\ au' = [au EXCEPT !.pc = "insert"]
              /\ UNCHANGED <<auLast, auditRows, auDocs>>
    /\ UNCHANGED <<auCount, vsVars, llmVars, docVars, gwVars, mpVars, jwVars,
            apiVars>>

\* steps 7-8: INSERT and flush; IntegrityError rolls the session back and
\* raises 409 with no audit entry; otherwise document.uploaded is added
AuInsert(conflict) ==
    /\ au.pc = "insert"
    /\ IF conflict
         THEN AuRaise(409, "DUPLICATE_DOCUMENT", <<>>, None)
         ELSE /\ au' = [pc |-> "publish",
                        pending |-> Audit(au.pending, "document.uploaded")]
              /\ UNCHANGED <<auLast, auditRows, auDocs>>
    /\ UNCHANGED <<auCount, vsVars, llmVars, docVars, gwVars, mpVars, jwVars,
            apiVars>>

\* the entries step 9 adds when the publish raised, none at all
PublishAuditNothing(pending, published) == pending

\* the entries step 9 adds: document.queue_failed when the publish raised
PublishAudit(pending, published) ==
    IF published THEN pending ELSE Audit(pending, "document.queue_failed")

\* step 9: publish_ingestion_task returns or raises; either way ingest
\* returns and the endpoint answers 202
AuPublish(published) ==
    /\ au.pc = "publish"
    /\ au' = [pc |-> "commit", pending |-> PublishAudit(au.pending, published)]
    /\ auLast' = [auLast EXCEPT !.status = 202, !.code = "uploaded",
                                !.published = IF published THEN "yes" ELSE "no"]
    /\ UNCHANGED <<auditRows, auDocs, auCount, vsVars, llmVars, docVars,
                   gwVars, mpVars, jwVars, apiVars>>

\* get_db after the handler returned: the document row and the session's
\* audit rows are committed
AuCommit ==
    /\ au.pc = "commit"
    /\ auditRows' = GetDbExit(auditRows, au.pending, FALSE)
    /\ auDocs' = [auDocs EXCEPT ![auCount] = "pending"]
    /\ au' = IdleAu
    /\ UNCHANGED <<auLast, auCount, vsVars, llmVars, docVars, gwVars, mpVars,
                   jwVars, apiVars>>

\* DELETE /documents/{id}: status='deleted' and a document.deleted entry,
\* committed together
AuDelete(r) ==
    /\ au.pc = "idle"
    /\ auDocs[r] = "pending"
    /\ auDocs' = [auDocs EXCEPT ![r] = "deleted"]
    /\ auditRows' = GetDbExit(auditRows, <<AuditRow("document.deleted", r)>>, FALSE)
    /\ UNCHANGED <<au, auLast, auCount, vsVars, llmVars, docVars, gwVars,
                   mpVars, jwVars, apiVars>>

(***************************************************************************)
(* ==================  AUTHENTICATION AND ROLE CHECK  ==================== *)
(*                                                                         *)
(* Two verifiers exist side by side, each with a JWKS cache of its own:    *)
(* "token" is verify_token / get_current_user with require_role, the one   *)
(* the API routes depend on; "middleware" is JWTDecoder with RoleChecker.  *)
(* One request is verified at a time; the issuer rotates its keys and the  *)
(* clock advances between and during requests.                             *)
(***************************************************************************)
MaxJwRequests == 2       \* requests verified in one behaviour
MaxJwNow      == 3700    \* the clock stops here
JwTimeStep    == 1850    \* seconds added by one clock step

JWKS_TTL == 3600         \* _JWKSCache._TTL, _JWKS_TTL

Verifiers == {"token", "middleware"}
Kids      == {"k1", "k2"}

\* the role claim of a token: the four roles, an unknown one, none
RoleClaims == {"viewer", "member", "admin", "owner", "superuser", None}
ValidRoles == {"owner", "admin", "member", "viewer"}

\* errors of the JWKS request: a 5xx answer, a network error, a body that
\* is not JSON
FetchErrors == {"HTTPStatusError", "RequestError", "ValueError"}

\* _ROLE_ORDER, _ROLE_RANK
ROLE_ORDER == [viewer |-> 0, member |-> 1, admin |-> 2, owner |-> 3]

\* dict.get(role, default)
RankOr(role, default) ==
    IF role \in DOMAIN ROLE_ORDER THEN ROLE_ORDER[role] ELSE default

\* _extract_role: an unknown or missing role becomes viewer
ExtractRole(claim) == IF claim \in ValidRoles THEN claim ELSE "viewer"

HasRoleStrictlyAbove(user_role, required_role) ==
    RankOr(user_role, -1) > RankOr(required_role, 999)

\* rbac._has_role
HasRole(user_role, required_role) ==
    RankOr(user_role, -1) >= RankOr(required_role, 999)

\* RoleChecker.__call__: denied when user_rank < min_rank
RoleCheckerAllows(user_role, min_role) ==
    ~(RankOr(user_role, -1) < ROLE_ORDER[min_role])

Allows(verifier, user_role, min_role) ==
    IF verifier = "token" THEN HasRole(user_role, min_role)
    ELSE RoleCheckerAllows(user_role, min_role)

\* ---- the JWKS cache -----------------------------------------------------
NoEntry == [present |-> FALSE, keys |-> {}, fetched_at |-> 0]

\* _fetch / _fetch_jwks: the entry is served while younger than the TTL
Serves(entry) == entry.present /\ (jwNow - entry.fetched_at) < JWKS_TTL

\* the second attempt with the cache entry left in place
FlushNever(cache, verifier, attempt) == cache

\* get_signing_key: the issuer's entry is popped before the second attempt
Flush(cache, verifier, attempt) ==
    IF attempt = 1 THEN [cache EXCEPT ![verifier] = NoEntry] ELSE cache

IdleJw == [pc |-> "idle", verifier |-> None, kid |-> None, attempt |-> 0,
           role |-> None]

\* what a request did and how it was answered
\* (first: where attempt 0 took the key set from; missed: the kid was not
\* in it; refetch: what the second attempt found; decoded: jwt.decode)
NoJwResult == [status |-> 0, verifier |-> None, role |-> None,
               min_role |-> None, first |-> None, missed |-> FALSE,
               flushed |-> FALSE, fetches |-> 0, refetch |-> None,
               fetchError |-> None, decoded |-> None]

\* attempt 1 of get_signing_key, entered after a miss on the key set that
\* _fetch returned: the entry is popped and _fetch is called again; an
\* entry that is still served answers with the key set that just missed
SecondAttempt(req, result, cache) ==
    LET after == Flush(cache, req.verifier, 1)
    IN  /\ jwksCache' = after
        /\ IF Serves(after[req.verifier])
              THEN /\ jwLast' = [result EXCEPT !.status = 401, !.refetch = "miss"]
                   /\ jw' = IdleJw
              ELSE /\ jwLast' = [result EXCEPT !.flushed = TRUE]
                   /\ jw' = [req EXCEPT !.pc = "fetch", !.attempt = 1]

\* a request arrives; get_signing_key runs up to its first JWKS request,
\* or to the key when the cache holds it
JwStart(verifier, kid, wellFormed) ==
    /\ jw.pc = "idle"
    /\ jwCount < MaxJwRequests
    /\ jwCount' = jwCount + 1
    /\ LET req   == [IdleJw EXCEPT !.pc = "fetch", !.verifier = verifier,
                                   !.kid = kid]
           entry == jwksCache[verifier]
           fresh == [NoJwResult EXCEPT
                       !.verifier = verifier,
                       !.first = IF Serves(entry) THEN "cache" ELSE "fetch"]
       IN  IF ~wellFormed
             THEN /\ jwLast' = [NoJwResult EXCEPT !.verifier = verifier,
                                                   !.status = 401]
                  /\ UNCHANGED <<jw, jwksCache>>
             ELSE IF ~Serves(entry)
                    THEN /\ jw' = req
                         /\ jwLast' = fresh
                         /\ UNCHANGED jwksCache
                    ELSE IF kid \in entry.keys
                           THEN /\ jw' = [req EXCEPT !.pc = "decode"]
                                /\ jwLast' = fresh
                                /\ UNCHANGED jwksCache
                           ELSE SecondAttempt(req, [fresh EXCEPT !.missed = TRUE],
                                              jwksCache)
    /\ UNCHANGED <<issuerKeys, jwNow, vsVars, llmVars, docVars, gwVars, mpVars,
                   auVars, apiVars>>

\* the JWKS request fails: the middleware answers 401 to the two httpx
\* errors it catches, every other error leaves the dependency and is
\* answered 500 by the generic exception handler
JwFetchFails(error) ==
    /\ jw.pc = "fetch"
    /\ jwLast' = [jwLast EXCEPT
                    !.fetches = @ + 1,
                    !.fetchError = error,
                    !.status = IF /\ jw.verifier = "middleware"
                                  /\ error \in {"HTTPStatusError", "RequestError"}
                                 THEN 401 ELSE 500]
    /\ jw' = IdleJw
    /\ UNCHANGED <<jwksCache, jwCount, issuerKeys, jwNow, vsVars, llmVars,
                   docVars, gwVars, mpVars, auVars, apiVars>>

\* the JWKS request succeeds: the key set is cached and searched
JwFetched ==
    /\ jw.pc = "fetch"
    /\ LET stored == [jwksCache EXCEPT ![jw.verifier] =
                         [present |-> TRUE, keys |-> issuerKeys,
                          fetched_at |-> jwNow]]
           did    == [jwLast EXCEPT !.fetches = @ + 1]
       IN  IF jw.kid \in issuerKeys
             THEN /\ jwLast' = [did EXCEPT !.refetch =
                                   IF jw.attempt = 1 THEN "hit" ELSE @]
                  /\ jwksCache' = stored
                  /\ jw' = [jw EXCEPT !.pc = "decode"]
             ELSE IF jw.attempt = 0
                    THEN SecondAttempt(jw, [did EXCEPT !.missed = TRUE], stored)
                    ELSE /\ jwLast' = [did EXCEPT !.status = 401,
                                                  !.refetch = "miss"]
                         /\ jwksCache' = stored
                         /\ jw' = IdleJw
    /\ UNCHANGED <<jwCount, issuerKeys, jwNow, vsVars, llmVars, docVars,
                   gwVars, mpVars, auVars, apiVars>>

\* jwt.decode with the signing key, then the claims: a token that does not
\* verify is answered 401, a verified one yields its TokenPayload
JwDecode(tokenOk, claim) ==
    /\ jw.pc = "decode"
    /\ IF tokenOk
         THEN /\ jw' = [jw EXCEPT !.pc = "role", !.role = ExtractRole(claim)]
              /\ jwLast' = [jwLast EXCEPT !.decoded = "ok"]
         ELSE /\ jwLast' = [jwLast EXCEPT !.status = 401, !.decoded = "bad"]
              /\ jw' = IdleJw
    /\ UNCHANGED <<jwksCache, jwCount, issuerKeys, jwNow, vsVars, llmVars,
                   docVars, gwVars, mpVars, auVars, apiVars>>

\* require_role(min_role) / RoleChecker(min_role) on the TokenPayload
JwRoleCheck(min_role) ==
    /\ jw.pc = "role"
    /\ jwLast' = [jwLast EXCEPT
                    !.role = jw.role,
                    !.min_role = min_role,
                    !.status = IF Allows(jw.verifier, jw.role, min_role)
                                 THEN 200 ELSE 403]
    /\ jw' = IdleJw
    /\ UNCHANGED <<jwksCache, jwCount, issuerKeys, jwNow, vsVars, llmVars,
                   docVars, gwVars, mpVars, auVars, apiVars>>

\* the issuer publishes another key set
JwRotate(keys) ==
    /\ keys # issuerKeys
    /\ issuerKeys' = keys
    /\ UNCHANGED <<jw, jwLast, jwksCache, jwCount, jwNow, vsVars, llmVars,
                   docVars, gwVars, mpVars, auVars, apiVars>>

\* time.monotonic() advances
JwTick ==
    /\ jwNow < MaxJwNow
    /\ jwNow' = jwNow + JwTimeStep
    /\ UNCHANGED <<jw, jwLast, jwksCache, jwCount, issuerKeys, vsVars, llmVars,
                   docVars, gwVars, mpVars, auVars, apiVars>>

(***************************************************************************)
(* ================  DOCUMENTS AND THE INGESTION WORKER  ================= *)
(*                                                                         *)
(* Every API request runs in one database transaction (get_db): its writes *)
(* become visible at the commit that follows the handler.  A worker run    *)
(* holds one transaction from the idempotency gate to the end of the       *)
(* pipeline; _mark_failed_sync uses a connection of its own.  PostgreSQL   *)
(* runs at READ COMMITTED: a reader sees committed rows only, a writer     *)
(* waits for the row lock of an uncommitted writer.                        *)
(***************************************************************************)
MaxUploads == 2      \* upload requests per behaviour
MaxRuns    == 4      \* messages delivered to workers, worker specification
ScanLimit  == 1      \* rows one scan selects (LIMIT 50, scaled to DocIds)
MaxIngestRuns == 1   \* messages delivered to workers, upload specification

DocIds     == 1..MaxUploads
DocTenants == {"t1", "t2"}
Md5s       == {"m1", "m2"}
\* the files uploaded: two files of one tenant, one of them also uploaded
\* by the other tenant
UploadKeys == {k \in DocTenants \X Md5s : k # <<"t2", "m2">>}
Uploaders  == {"u1", "u2"}
Workers    == {"w1", "w2"}

MAX_RETRIES     == 3     \* process_document max_retries
RETRY_BASE      == 30    \* back-off base, seconds
RETRY_CAP       == 300   \* back-off ceiling, seconds

DocStatuses == {"pending", "processing", "ready", "failed", "deleted"}

AbsentRow == [tenant |-> None, md5 |-> None, status |-> "absent"]
IdleUpl   == [pc |-> "idle", tenant |-> None, md5 |-> None, doc |-> 0]
IdleWk    == [pc |-> "idle", doc |-> 0, retries |-> 0]
NoUpload  == [outcome |-> None, doc |-> 0]
NoTask    == [outcome |-> None, doc |-> 0, countdown |-> 0]
NoAudit   == [processed |-> 0, processing_failed |-> 0]

RECURSIVE Pow2(_)
Pow2(n) == IF n = 0 THEN 1 ELSE 2 * Pow2(n - 1)

\* ---- saas.documents ----------------------------------------------------
\* _find_duplicate: the tenant's rows (row-level security) with this
\* checksum whose status is not 'deleted'
FindDuplicate(rows, t, m) ==
    {d \in DocIds : /\ rows[d].status \notin {"absent", "deleted"}
                    /\ rows[d].tenant = t
                    /\ rows[d].md5 = m}

\* rows of saas.documents that are committed
CommittedKeys ==
    {[tenant |-> docs[d].tenant, md5 |-> docs[d].md5] :
        d \in {e \in DocIds : docs[e].status # "absent"}}

\* rows flushed by other upload transactions that have not committed yet
FlushedKeys(u) ==
    {[tenant |-> upl[v].tenant, md5 |-> upl[v].md5] :
        v \in {x \in Uploaders \ {u} : upl[x].pc = "flushed"}}

UniqueConflictNever(keys, t, m) == FALSE

\* uq_documents_tenant_checksum: UNIQUE (tenant_id, md5_checksum), over
\* every row whatever its status
UniqueConflict(keys, t, m) == [tenant |-> t, md5 |-> m] \in keys

\* the upload slots are used in order
UplSlotFree(u) ==
    /\ upl[u].pc = "idle"
    /\ u = "u2" => upl["u1"].pc # "idle"

\* ---- IngestionService.ingest -------------------------------------------
\* steps 1-6: the file is streamed to S3, then the duplicate probe runs
IngestProbe(u, t, m) ==
    /\ UplSlotFree(u)
    /\ nextDoc <= MaxUploads
    /\ nextDoc' = nextDoc + 1
    /\ IF FindDuplicate(docs, t, m) # {}
          THEN /\ uplLast' = [outcome |-> "duplicate",
                              doc |-> CHOOSE d \in FindDuplicate(docs, t, m) : TRUE]
               /\ UNCHANGED upl
          ELSE /\ upl' = [upl EXCEPT ![u] = [pc |-> "probed", tenant |-> t,
                                             md5 |-> m, doc |-> nextDoc]]
               /\ UNCHANGED uplLast
    /\ UNCHANGED <<docs, queue, wk, runs, taskLast, auditLog, docVectors,
                   docChunks, vsVars, llmVars,
                   gwVars, mpVars, auVars, jwVars, apiVars>>

\* steps 7-9: INSERT and flush, then the task is published to the broker.
\* The flush waits while another transaction holds an uncommitted row with
\* the same key; a committed row with the same key raises IntegrityError,
\* answered by rollback and 409.
IngestInsert(u, published) ==
    /\ upl[u].pc = "probed"
    /\ ~UniqueConflict(FlushedKeys(u), upl[u].tenant, upl[u].md5)
    /\ IF UniqueConflict(CommittedKeys, upl[u].tenant, upl[u].md5)
          THEN /\ upl' = [upl EXCEPT ![u] = IdleUpl]
               /\ uplLast' = [outcome |-> "integrity_error", doc |-> upl[u].doc]
               /\ UNCHANGED queue
          ELSE /\ upl' = [upl EXCEPT ![u].pc = "flushed"]
               /\ queue' = IF published
                              THEN queue \cup {[doc |-> upl[u].doc, retries |-> 0]}
                              ELSE queue
               /\ UNCHANGED uplLast
    /\ UNCHANGED <<docs, nextDoc, wk, runs, taskLast, auditLog, docVectors,
                   docChunks, vsVars, llmVars,
                   gwVars, mpVars, auVars, jwVars, apiVars>>

\* get_db commits once the handler has returned
IngestCommit(u) ==
    /\ upl[u].pc = "flushed"
    /\ docs' = [docs EXCEPT ![upl[u].doc] =
                   [tenant |-> upl[u].tenant, md5 |-> upl[u].md5,
                    status |-> "pending"]]
    /\ upl' = [upl EXCEPT ![u] = IdleUpl]
    /\ uplLast' = [outcome |-> "uploaded", doc |-> upl[u].doc]
    /\ UNCHANGED <<nextDoc, queue, wk, runs, taskLast, auditLog, docVectors,
                   docChunks, vsVars, llmVars,
                   gwVars, mpVars, auVars, jwVars, apiVars>>

\* ---- row locks ----------------------------------------------------------
LockedNever(d, w) == FALSE

\* a worker other than w holds the row lock of document d: it has flushed
\* status='processing' and not yet committed or rolled back
Locked(d, w) ==
    \E v \in Workers \ {w} : wk[v].pc = "processing" /\ wk[v].doc = d

\* ---- DELETE /documents/{id} --------------------------------------------
DeleteDocument(d) ==
    /\ docs[d].status # "absent"
    /\ ~Locked(d, None)
    /\ docs' = [docs EXCEPT ![d].status = "deleted"]
    /\ UNCHANGED <<nextDoc, upl, uplLast, queue, wk, runs, taskLast, auditLog,
                   docVectors, docChunks, vsVars, llmVars,
                   gwVars, mpVars, auVars, jwVars, apiVars>>

\* ---- process_document / _run_pipeline ----------------------------------
SkipStatusesProcessingOnly == {"processing"}

\* step 1: statuses the idempotency guard skips
SkipStatuses == {"ready", "processing"}

\* the worker slots are used in order
WkSlotFree(w) ==
    /\ wk[w].pc = "idle"
    /\ w = "w2" => wk["w1"].pc # "idle"

Ended(w, outcome, countdown) ==
    [outcome |-> outcome, doc |-> wk[w].doc, countdown |-> countdown]

\* a worker takes a message and runs step 1, the idempotency guard; limit
\* bounds the number of messages delivered
TaskStart(w, msg, limit) ==
    /\ WkSlotFree(w)
    /\ msg \in queue
    /\ runs < limit
    /\ runs' = runs + 1
    /\ queue' = queue \ {msg}
    /\ IF docs[msg.doc].status = "absent"
          THEN /\ taskLast' = [outcome |-> "document_not_found",
                               doc |-> msg.doc, countdown |-> 0]
               /\ UNCHANGED wk
          ELSE IF docs[msg.doc].status \in SkipStatuses
                  THEN /\ taskLast' = [outcome |-> "skipped", doc |-> msg.doc,
                                       countdown |-> 0]
                       /\ UNCHANGED wk
                  ELSE /\ wk' = [wk EXCEPT ![w] = [pc |-> "gated",
                                    doc |-> msg.doc, retries |-> msg.retries]]
                       /\ UNCHANGED taskLast
    /\ UNCHANGED <<docs, nextDoc, upl, uplLast, auditLog, docVectors,
                   docChunks, vsVars, llmVars,
                   gwVars, mpVars, auVars, jwVars, apiVars>>

\* step 2: UPDATE status='processing' and flush, inside the transaction
MarkProcessing(w) ==
    /\ wk[w].pc = "gated"
    /\ ~Locked(wk[w].doc, w)
    /\ wk' = [wk EXCEPT ![w].pc = "processing"]
    /\ UNCHANGED <<docs, nextDoc, upl, uplLast, queue, runs, taskLast,
                   auditLog, docVectors, docChunks, vsVars, llmVars,
                   gwVars, mpVars, auVars, jwVars, apiVars>>

ChunksPersistedNothing(chunks, d) == chunks

\* step 8: db.add_all(chunk_rows), in the run's transaction
ChunksPersisted(chunks, d) == [chunks EXCEPT ![d] = TRUE]

\* steps 3-10 without an error, in the order of the code: embedding (6),
\* vector upsert (7), chunk rows (8), status='ready' (9), audit entry (10);
\* then the transaction commits rows, status and entry together.  Chunk ids are
\* derived from (tenant, document, index): with chunk rows of the document
\* already committed the INSERT cannot succeed.
PipelineCompletes(w) ==
    /\ wk[w].pc = "processing"
    /\ ~docChunks[wk[w].doc]
    /\ docVectors' = [docVectors EXCEPT ![wk[w].doc] = TRUE]
    /\ docChunks' = ChunksPersisted(docChunks, wk[w].doc)
    /\ docs' = [docs EXCEPT ![wk[w].doc].status = "ready"]
    /\ auditLog' = [auditLog EXCEPT ![wk[w].doc].processed = @ + 1]
    /\ taskLast' = Ended(w, "ok", 0)
    /\ wk' = [wk EXCEPT ![w] = IdleWk]
    /\ UNCHANGED <<nextDoc, upl, uplLast, queue, runs, vsVars, llmVars,
                   gwVars, mpVars, auVars, jwVars, apiVars>>

\* _mark_failed: status and audit entry, written in the run's transaction
MarkFailed(rows, log, d) ==
    [rows |-> [rows EXCEPT ![d].status = "failed"],
     log  |-> [log EXCEPT ![d].processing_failed = @ + 1]]

\* steps 4-6 find nothing to index (no text, no chunks, no embedding):
\* _mark_failed, then the pipeline returns an error dict and commits
PipelineContentFails(w) ==
    /\ wk[w].pc = "processing"
    /\ docs' = MarkFailed(docs, auditLog, wk[w].doc).rows
    /\ auditLog' = MarkFailed(docs, auditLog, wk[w].doc).log
    /\ taskLast' = Ended(w, "error", 0)
    /\ wk' = [wk EXCEPT ![w] = IdleWk]
    /\ UNCHANGED <<nextDoc, upl, uplLast, queue, runs, docVectors, docChunks,
                   vsVars, llmVars,
                   gwVars, mpVars, auVars, jwVars, apiVars>>

MarkFailedSyncNothing(rows, d) == rows

\* _mark_failed_sync: UPDATE status='failed' on a connection of its own
MarkFailedSync(rows, d) == [rows EXCEPT ![d].status = "failed"]

\* countdown of the retry scheduled by a run that was retried n times
RetryDelay(n) == Min(RETRY_BASE * Pow2(n), RETRY_CAP)

\* where an exception can leave the pipeline: before anything was read, or
\* after the vectors were upserted
Stages == {"download", "persist"}

\* what the vector store holds when the run stops at a stage
AfterStage(w, stage) ==
    /\ stage = "persist" => wk[w].pc = "processing"
    /\ docVectors' = IF stage = "persist"
                         THEN [docVectors EXCEPT ![wk[w].doc] = TRUE]
                         ELSE docVectors

\* the pipeline raises: the transaction rolls back, the handler of
\* process_document calls _mark_failed_sync and self.retry, which raises
\* Retry below max_retries and the exception itself at max_retries
PipelineRaises(w, stage) ==
    /\ wk[w].pc \in {"gated", "processing"}
    /\ ~Locked(wk[w].doc, w)
    /\ AfterStage(w, stage)
    /\ docs' = MarkFailedSync(docs, wk[w].doc)
    /\ IF wk[w].retries < MAX_RETRIES
          THEN /\ queue' = queue \cup {[doc |-> wk[w].doc,
                                        retries |-> wk[w].retries + 1]}
               /\ taskLast' = Ended(w, "retry", RetryDelay(wk[w].retries))
          ELSE /\ taskLast' = Ended(w, "raised", 0)
               /\ UNCHANGED queue
    /\ wk' = [wk EXCEPT ![w] = IdleWk]
    /\ UNCHANGED <<nextDoc, upl, uplLast, runs, auditLog, docChunks,
                   vsVars, llmVars,
                   gwVars, mpVars, auVars, jwVars, apiVars>>

\* SoftTimeLimitExceeded: roll back, _mark_failed_sync, re-raise
SoftTimeLimit(w, stage) ==
    /\ wk[w].pc \in {"gated", "processing"}
    /\ ~Locked(wk[w].doc, w)
    /\ AfterStage(w, stage)
    /\ docs' = MarkFailedSync(docs, wk[w].doc)
    /\ taskLast' = Ended(w, "timeout", 0)
    /\ wk' = [wk EXCEPT ![w] = IdleWk]
    /\ UNCHANGED <<nextDoc, upl, uplLast, queue, runs, auditLog, docChunks,
                   vsVars, llmVars,
                   gwVars, mpVars, auVars, jwVars, apiVars>>

\* the worker process is killed during a run (out of memory, SIGKILL):
\* nothing of the transaction is committed and no handler runs; the task
\* acknowledges late and rejects on worker loss, so the broker delivers the
\* message again, and that delivery is the one counted
WorkerLost(w, stage) ==
    /\ wk[w].pc \in {"gated", "processing"}
    /\ AfterStage(w, stage)
    /\ queue' = queue \cup {[doc |-> wk[w].doc, retries |-> wk[w].retries]}
    /\ runs' = runs - 1
    /\ wk' = [wk EXCEPT ![w] = IdleWk]
    /\ UNCHANGED <<docs, nextDoc, upl, uplLast, taskLast, auditLog, docChunks,
                   vsVars, llmVars,
                   gwVars, mpVars, auVars, jwVars, apiVars>>

\* ---- retry_failed_documents (beat) -------------------------------------
\* the first n documents of a set, in the order of their creation
OldestFirst(ds, n) == {d \in ds : Cardinality({e \in ds : e < d}) < n}

\* the rows the scan selects: status 'pending', created more than five
\* minutes ago (old), ORDER BY created_at LIMIT ScanLimit
ScanRows(rows, old) ==
    OldestFirst({d \in old : rows[d].status = "pending"}, ScanLimit)

\* one scan: a message for every selected row; failed are the rows whose
\* apply_async raised, which is logged and skipped
RetryFailedDocuments(old, failed) ==
    /\ old # {}
    /\ failed \subseteq old
    /\ \A d \in old : docs[d].status # "absent"
    /\ failed \subseteq ScanRows(docs, old)
    /\ queue' = queue \cup {[doc |-> d, retries |-> 0] :
                              d \in ScanRows(docs, old) \ failed}
    /\ UNCHANGED <<docs, nextDoc, upl, uplLast, wk, runs, taskLast, auditLog,
                   docVectors, docChunks, vsVars, llmVars,
                   gwVars, mpVars, auVars, jwVars, apiVars>>

\* every document there is was created more than five minutes ago
Aged == {d \in DocIds : docs[d].status # "absent"}

\* a scan long after the uploads, with the broker reachable
ScanBeat == RetryFailedDocuments(Aged, {})

(***************************************************************************)
(* ==========================  QUERY RETRIEVAL  ========================== *)
(*                                                                         *)
(* POST /query builds a HybridRetriever for the request and awaits         *)
(* retrieve().  Chunks are identified by their dense rank; scores and the  *)
(* order of a result are not modelled, so a list is the set of its chunks  *)
(* and "the first n" of a list is any n of them.                           *)
(***************************************************************************)
MaxHits == 6             \* chunks of the tenant the vector store can match

TOP_K_MIN == 1           \* QueryRequest.top_k: Field(ge=1, le=20)
TOP_K_MAX == 20
RERANK_TOP_N == 5        \* HybridRetriever(rerank_top_n=5), the default

HitIds == 1..MaxHits
TopKs  == {TOP_K_MIN, RERANK_TOP_N, RERANK_TOP_N + 1, TOP_K_MAX}
RerankerStates == {"unavailable", "error", "ok"}

Max(a, b) == IF a >= b THEN a ELSE b

\* the possible values of list[:n]
FirstN(list, n) == {l \in SUBSET list : Cardinality(l) = Min(n, Cardinality(list))}

\* query(): dense_candidates=max(body.top_k * 4, 20)
DenseCandidates(top_k) == Max(top_k * 4, 20)

\* query(): rerank_top_n=body.top_k
RerankTopN(top_k) == top_k

\* retrieve(): top_n=min(top_k, self._rerank_top_n)
TopN(top_k, rerank_top_n) == Min(top_k, rerank_top_n)

\* _apply_permission_filter: the chunks that carry no permissions or one of
\* the caller's (readable) stay
ApplyPermissionFilter(fused, restricted, readable) ==
    IF restricted THEN fused \cap readable ELSE fused

IdleRt == [pc |-> "idle", top_k |-> 0, candidates |-> {}, status |-> 0,
           returned |-> {}, reranked |-> FALSE]

\* retrieve() up to the call of the reranker: dense query, BM25 and fusion
\* over the dense results, permission filter, the candidate list; an empty
\* result is answered 404 by the endpoint (readable: the matching chunks the
\* caller's permissions admit, all of them without a filter)
Retrieve(top_k, hits, restricted, readable) ==
    /\ rt.pc = "idle"
    /\ readable = HitIds \/ (restricted /\ readable \subseteq 1..hits)
    /\ LET dense == 1..Min(hits, EffectiveTopK(vsBackend, DenseCandidates(top_k)))
           fused == ApplyPermissionFilter(dense, restricted, readable)
       IN  IF fused = {}
             THEN rt' = [IdleRt EXCEPT !.top_k = top_k, !.status = 404]
             ELSE \E candidates \in FirstN(fused, DenseCandidates(top_k)) :
                     rt' = [IdleRt EXCEPT !.pc = "rerank", !.top_k = top_k,
                                          !.candidates = candidates]
    /\ UNCHANGED <<sse, stLast, vsVars, llmVars, docVars, gwVars, mpVars,
                   auVars, jwVars>>

\* CohereReranker.rerank and the rest of retrieve(): top_n is cut to the
\* number of candidates; without a client, or when the API call raises, the
\* first top_n candidates are returned, otherwise the results of the API
Rerank(state, chosen) ==
    /\ rt.pc = "rerank"
    /\ chosen \in FirstN(rt.candidates,
                         TopN(rt.top_k, RerankTopN(rt.top_k)))
    /\ rt' = [rt EXCEPT !.pc = "idle", !.status = 200, !.returned = chosen,
                        !.reranked = (state = "ok")]
    /\ UNCHANGED <<sse, stLast, vsVars, llmVars, docVars, gwVars, mpVars,
                   auVars, jwVars>>

(***************************************************************************)
(* ======================  UPLOAD PROGRESS STREAM  ======================= *)
(*                                                                         *)
(* One upload token.  The stream endpoint registers a queue for the token  *)
(* and its generator delivers the events; the upload endpoint pushes an    *)
(* "uploading" event per part and a final "queuing" event.  Uploads may    *)
(* share the token; one stream is connected at a time and one final event  *)
(* waits in the queue at a time.                                           *)
(***************************************************************************)
SSE_QUEUE_MAXSIZE == 200   \* asyncio.Queue(maxsize=200)

SseStages      == {"uploading", "queuing"}
TerminalStages == {"queuing", "error"}

NoStream == [open |-> FALSE, queue |-> <<>>, last |-> None]

FullNever(q) == FALSE

\* asyncio.Queue.full()
Full(q) == Len(q) >= SSE_QUEUE_MAXSIZE

\* stream_upload_progress: a new queue is registered under the token
StreamUploadProgress ==
    /\ ~sse.open
    /\ sse' = [sse EXCEPT !.open = TRUE, !.queue = <<>>]
    /\ UNCHANGED <<rt, stLast, vsVars, llmVars, docVars, gwVars, mpVars,
                   auVars, jwVars>>

\* _sse_push: put_nowait on the token's queue; the event is dropped when no
\* queue is registered or the queue is full
SsePush(stage) ==
    /\ stage = "queuing" => stage \notin Range(sse.queue)
    /\ IF sse.open /\ ~Full(sse.queue)
         THEN sse' = [sse EXCEPT !.queue = Append(@, stage), !.last = "queued"]
         ELSE sse' = [sse EXCEPT !.last = "dropped"]
    /\ UNCHANGED <<rt, stLast, vsVars, llmVars, docVars, gwVars, mpVars,
                   auVars, jwVars>>

\* generate(): queue.get() returned an event, it is sent; a terminal stage
\* ends the stream and the finally clause removes the queue
SseDeliver ==
    /\ sse.open
    /\ sse.queue # <<>>
    /\ IF Head(sse.queue) \in TerminalStages
         THEN sse' = [sse EXCEPT !.open = FALSE, !.queue = <<>>]
         ELSE sse' = [sse EXCEPT !.queue = Tail(@)]
    /\ UNCHANGED <<rt, stLast, vsVars, llmVars, docVars, gwVars, mpVars,
                   auVars, jwVars>>

\* generate(): the client disconnected or the stream is older than the
\* TTL; the finally clause removes the queue
SseClose ==
    /\ sse.open
    /\ sse' = [sse EXCEPT !.open = FALSE, !.queue = <<>>]
    /\ UNCHANGED <<rt, stLast, vsVars, llmVars, docVars, gwVars, mpVars,
                   auVars, jwVars>>

(***************************************************************************)
(* =========================  STATUS ENDPOINT  =========================== *)
(***************************************************************************)
\* the values of the ProcessingStatus enum
ProcessingStatus == {"queued", "processing", "completed", "failed"}

\* ProcessingStatus(doc.status), and FAILED on ValueError
ToProcessingStatus(status) ==
    IF status \in ProcessingStatus THEN status ELSE "failed"

NoStatus == [code |-> 0, doc |-> 0, stored |-> None, processing_status |-> None]

\* GET /documents/{id}/status: the committed row is read
GetDocumentStatus(d) ==
    /\ stLast' = IF docs[d].status = "absent"
                   THEN [NoStatus EXCEPT !.code = 404, !.doc = d]
                   ELSE [code |-> 200, doc |-> d, stored |-> docs[d].status,
                         processing_status |-> ToProcessingStatus(docs[d].status)]
    /\ UNCHANGED <<rt, sse, vsVars, llmVars, docVars, gwVars, mpVars,
                   auVars, jwVars>>

(***************************************************************************)
(* ==========================  SPECIFICATIONS  =========================== *)
(***************************************************************************)
InitVSPart ==
    /\ vsIndex = {}
    /\ vsLast  = VSIdle

InitLLMPart ==
    /\ cbFailures  = [p \in Providers |-> 0]
    /\ cbOpenUntil = [p \in Providers |-> 0]
    /\ now         = 0
    /\ llmReq      = [r \in Requests |-> IdleReq]
    /\ llmLast     = NoCall
    /\ llmCalls    = 0
    /\ llmFailed   = 0
    /\ cbStreak    = [p \in Providers |-> 0]
    /\ cbOpenedAt  = [p \in Providers |-> -1]

InitDocPart ==
    /\ docs       = [d \in DocIds |-> AbsentRow]
    /\ nextDoc    = 1
    /\ upl        = [u \in Uploaders |-> IdleUpl]
    /\ uplLast    = NoUpload
    /\ queue      = {}
    /\ wk         = [w \in Workers |-> IdleWk]
    /\ runs       = 0
    /\ taskLast   = NoTask
    /\ auditLog   = [d \in DocIds |-> NoAudit]
    /\ docVectors = [d \in DocIds |-> FALSE]
    /\ docChunks  = [d \in DocIds |-> FALSE]

InitGWPart ==
    /\ gw         = IdleGw
    /\ gwLast     = NoGwCall
    /\ gwCalls    = 0
    /\ tokenUsage = [k \in UsageKeys |-> 0]

InitMPPart ==
    /\ mp       = IdleMp
    /\ mpLast   = NoMpResponse
    /\ s3Upload = NoS3Upload
    /\ s3Calls  = 0
    /\ mpCount  = 0

InitAUPart ==
    /\ au        = IdleAu
    /\ auLast    = NoAuResponse
    /\ auditRows = <<>>
    /\ auDocs    = [r \in AuRequests |-> "absent"]
    /\ auCount   = 0

\* both caches are empty when the process starts; the issuer serves one key
InitJWPart ==
    /\ jw         = IdleJw
    /\ jwLast     = NoJwResult
    /\ jwksCache  = [v \in Verifiers |-> NoEntry]
    /\ issuerKeys = {"k1"}
    /\ jwNow      = 0
    /\ jwCount    = 0

InitAPIPart ==
    /\ rt     = IdleRt
    /\ sse    = NoStream
    /\ stLast = NoStatus

InitVS  == vsBackend \in Backends /\ InitVSPart /\ InitLLMPart /\ InitDocPart
               /\ InitGWPart /\ InitMPPart
               /\ InitAUPart /\ InitJWPart /\ InitAPIPart
InitLLM == vsBackend = "pinecone" /\ InitVSPart /\ InitLLMPart /\ InitDocPart
               /\ InitGWPart /\ InitMPPart
               /\ InitAUPart /\ InitJWPart /\ InitAPIPart
InitDoc == vsBackend = "pinecone" /\ InitVSPart /\ InitLLMPart /\ InitDocPart
               /\ InitGWPart /\ InitMPPart
               /\ InitAUPart /\ InitJWPart /\ InitAPIPart

\* two files of tenant t1 have been uploaded; the task of the first is in
\* the broker, the publish of the second failed
InitWorkerPart ==
    /\ docs       = [d \in DocIds |->
                        IF d = 1 THEN [tenant |-> "t1", md5 |-> "m1", status |-> "pending"]
                        ELSE IF d = 2 THEN [tenant |-> "t1", md5 |-> "m2", status |-> "pending"]
                        ELSE AbsentRow]
    /\ nextDoc    = 3
    /\ upl        = [u \in Uploaders |-> IdleUpl]
    /\ uplLast    = [outcome |-> "uploaded", doc |-> 2]
    /\ queue      = {[doc |-> 1, retries |-> 0]}
    /\ wk         = [w \in Workers |-> IdleWk]
    /\ runs       = 0
    /\ taskLast   = NoTask
    /\ auditLog   = [d \in DocIds |-> NoAudit]
    /\ docVectors = [d \in DocIds |-> FALSE]
    /\ docChunks  = [d \in DocIds |-> FALSE]

InitWorker == vsBackend = "pinecone" /\ InitVSPart /\ InitLLMPart /\ InitWorkerPart
               /\ InitGWPart /\ InitMPPart
               /\ InitAUPart /\ InitJWPart /\ InitAPIPart

NextVS ==
    \/ \E t \in Tenants, recs \in SeqsUpTo(VectorRecords, MaxRecords),
          bs \in 1..MaxRecords : Upsert(t, recs, bs)
    \/ \E t \in Tenants, k \in 1..MaxTopK, f \in QueryFilters : Query(t, k, f)
    \/ \E t \in Tenants, ids \in SUBSET VecIds : Delete(t, ids)

NextLLM ==
    \/ \E r \in Requests, reqs \in InvokeRequirements : StartInvoke(r, reqs)
    \/ \E r \in Requests : AttemptOk(r)
    \/ \E r \in Requests : AttemptTimeout(r)
    \/ \E r \in Requests, exc \in ExcNames : AttemptError(r, exc)
    \/ Tick

NextDoc ==
    \/ \E u \in Uploaders, k \in UploadKeys : IngestProbe(u, k[1], k[2])
    \/ \E u \in Uploaders, published \in BOOLEAN : IngestInsert(u, published)
    \/ \E u \in Uploaders : IngestCommit(u)
    \/ \E d \in DocIds : DeleteDocument(d)
    \/ \E w \in Workers, msg \in queue : TaskStart(w, msg, MaxIngestRuns)
    \/ \E w \in Workers : MarkProcessing(w)
    \/ \E w \in Workers : PipelineCompletes(w)
    \/ \E w \in Workers : PipelineContentFails(w)
    \/ \E w \in Workers, stage \in Stages : PipelineRaises(w, stage)
    \/ \E w \in Workers, stage \in Stages : SoftTimeLimit(w, stage)

NextWorker ==
    \/ \E w \in Workers, msg \in queue : TaskStart(w, msg, MaxRuns)
    \/ \E w \in Workers : MarkProcessing(w)
    \/ \E w \in Workers : PipelineCompletes(w)
    \/ \E w \in Workers : PipelineContentFails(w)
    \/ \E w \in Workers, stage \in Stages : PipelineRaises(w, stage)
    \/ \E w \in Workers, stage \in Stages : SoftTimeLimit(w, stage)
    \/ \E old \in SUBSET DocIds, failed \in SUBSET DocIds :
          RetryFailedDocuments(old, failed)
    \/ \E d \in DocIds : DeleteDocument(d)

\* a run of process_document ends, one way or another
RunFinishes ==
    \/ \E w \in Workers : PipelineCompletes(w)
    \/ \E w \in Workers : PipelineContentFails(w)
    \/ \E w \in Workers, stage \in Stages : PipelineRaises(w, stage)
    \/ \E w \in Workers, stage \in Stages : SoftTimeLimit(w, stage)
    \/ \E w \in Workers, stage \in Stages : WorkerLost(w, stage)

\* the workers and the beat scanner, long after the uploads
NextScan ==
    \/ \E w \in Workers, msg \in queue : TaskStart(w, msg, MaxRuns)
    \/ \E w \in Workers : MarkProcessing(w)
    \/ RunFinishes
    \/ ScanBeat

NextGW ==
    \/ \E mode \in GwModes, reqs \in Requirements : GwStart(mode, reqs)
    \/ GwChunk
    \/ \E tenant \in {"t1", None}, dbOk \in BOOLEAN : GwAnswer(tenant, dbOk)
    \/ GwTimeout
    \/ \E exc \in ExcNames : GwError(exc)

NextMP ==
    \/ \E size \in FileSizes, nameOk \in BOOLEAN, permsOk \in BOOLEAN,
          hasFile \in BOOLEAN :
          \E declared \in DeclaredLengths(size) :
              MpRequest(size, declared, nameOk, permsOk, hasFile)
    \/ \E typeOk \in BOOLEAN : MpSniff(typeOk)
    \/ \E outcome \in S3Outcomes : MpCreate(outcome)
    \/ MpReadChunk
    \/ \E outcome \in S3Outcomes : MpUploadPart(outcome)
    \/ \E outcome \in S3Outcomes : MpAbort(outcome)
    \/ \E outcome \in S3Outcomes : MpComplete(outcome)
    \/ MpCancel

NextAU ==
    \/ \E filename \in FileNames, head_8 \in FileHeads, nameOk \in BOOLEAN,
          tooLarge \in BOOLEAN : AuStart(filename, head_8, nameOk, tooLarge)
    \/ \E outcome \in {"ok", "HTTPException", "Exception"} : AuUpload(outcome)
    \/ \E duplicate \in BOOLEAN : AuProbe(duplicate)
    \/ \E conflict \in BOOLEAN : AuInsert(conflict)
    \/ \E published \in BOOLEAN : AuPublish(published)
    \/ AuCommit
    \/ \E r \in AuRequests : AuDelete(r)

NextJW ==
    \/ \E verifier \in Verifiers, kid \in Kids, wellFormed \in BOOLEAN :
          JwStart(verifier, kid, wellFormed)
    \/ \E error \in FetchErrors : JwFetchFails(error)
    \/ JwFetched
    \/ \E tokenOk \in BOOLEAN, claim \in RoleClaims : JwDecode(tokenOk, claim)
    \/ \E min_role \in ValidRoles : JwRoleCheck(min_role)
    \/ \E keys \in SUBSET Kids : JwRotate(keys)
    \/ JwTick

NextRT ==
    \/ \E top_k \in TopKs, hits \in 0..MaxHits, restricted \in BOOLEAN,
          readable \in SUBSET HitIds : Retrieve(top_k, hits, restricted, readable)
    \/ \E state \in RerankerStates, chosen \in SUBSET HitIds : Rerank(state, chosen)

NextSSE ==
    \/ StreamUploadProgress
    \/ \E stage \in SseStages : SsePush(stage)
    \/ SseDeliver
    \/ SseClose

\* the workers on the task in the broker, deletes, and polls of the status
NextST ==
    \/ \E w \in Workers, msg \in queue : TaskStart(w, msg, MaxRuns)
    \/ \E w \in Workers : MarkProcessing(w)
    \/ \E w \in Workers : PipelineCompletes(w)
    \/ \E w \in Workers : PipelineContentFails(w)
    \/ \E w \in Workers, stage \in Stages : PipelineRaises(w, stage)
    \/ \E d \in DocIds : DeleteDocument(d)
    \/ \E d \in DocIds : GetDocumentStatus(d)

SpecVS  == InitVS  /\ [][NextVS]_vars
SpecLLM == InitLLM /\ [][NextLLM]_vars
SpecDoc == InitDoc /\ [][NextDoc]_vars
SpecGW  == InitLLM /\ [][NextGW]_vars
SpecMP  == InitDoc /\ [][NextMP]_vars
SpecAU  == InitDoc /\ [][NextAU]_vars
SpecJW  == InitDoc /\ [][NextJW]_vars
SpecRT  == InitDoc /\ [][NextRT]_vars
SpecSSE == InitDoc /\ [][NextSSE]_vars
SpecST  == InitWorker /\ [][NextST]_vars
SpecWorker == InitWorker /\ [][NextWorker]_vars

\* the broker delivers every queued message, a started run goes on to its
\* end and the beat scheduler keeps firing: no enabled step of the worker
\* side is postponed forever
SpecWorkerFair == SpecWorker /\ WF_vars(NextWorker)

\* the beat scheduler fires the scanner every 60 s, the broker delivers
\* every queued message to a free worker, a started run takes its next
\* step and comes to an end; which end is not the scheduler's to choose
SpecScanFair ==
    /\ InitWorker /\ [][NextScan]_vars
    /\ WF_vars(ScanBeat)
    /\ WF_vars(\E w \in Workers, msg \in queue : TaskStart(w, msg, MaxRuns))
    /\ WF_vars(\E w \in Workers : MarkProcessing(w))
    /\ WF_vars(RunFinishes)


(***************************************************************************)
(* ============================  PROPERTIES  ============================= *)
(***************************************************************************)

\* ---- C1 -----------------------------------------------------------------
\* C1: every result a query hands back through the store bound to tenant T
\* carries metadata.tenant_id = T, whatever filter the caller supplied and
\* whatever any tenant upserted before.
C1_QueryResultsBelongToTenant ==
    vsLast.op = "query" =>
        \A res \in vsLast.results : res.metadata.tenant_id = vsLast.tenant

\* a query returned something while another tenant also has vectors stored
C1_Witness ==
    /\ vsLast.op = "query"
    /\ vsLast.results # {}
    /\ \E o \in vsIndex : o.metadata.tenant_id # vsLast.tenant

\* ---- C2 -----------------------------------------------------------------
\* C2: an upsert through the store of tenant T raises as soon as a record's
\* metadata.tenant_id is not T, and no object stored in T's namespace ever
\* carries another tenant's id.
C2_UpsertFailsClosed ==
    /\ \A t \in Tenants : \A o \in vsIndex :
          o.ns = Namespace(vsBackend, t) => o.metadata.tenant_id = t
    /\ (vsLast.op = "upsert" /\ vsLast.foreign) => vsLast.raised

\* an upsert with a foreign record was rejected while the store holds data
C2_Witness ==
    /\ vsLast.op = "upsert"
    /\ vsLast.foreign
    /\ vsLast.raised
    /\ vsIndex # {}

\* ---- C3 -----------------------------------------------------------------
Live(d) == docs[d].status \notin {"absent", "deleted"}

\* C3: at every point no two documents of one tenant that are not deleted
\* have the same md5_checksum, however uploads, soft-deletes and worker
\* runs interleave.
C3_LiveChecksumsUnique ==
    \A d1 \in DocIds, d2 \in DocIds :
        (d1 # d2 /\ Live(d1) /\ Live(d2) /\ docs[d1].tenant = docs[d2].tenant)
            => docs[d1].md5 # docs[d2].md5

\* an upload passed the duplicate probe and then lost the race for the
\* unique key against a document that is still live
C3_Witness ==
    /\ uplLast.outcome = "integrity_error"
    /\ \A d \in DocIds : docs[d].status # "deleted"
    /\ \E d \in DocIds : Live(d)

\* ---- C4 -----------------------------------------------------------------
\* C4: a run delivered for a document whose status is ready or processing
\* returns 'skipped' and changes nothing: no document row, chunk row,
\* vector, audit entry, and no pipeline step is entered.  So a second run
\* after a completed one is a no-op.
C4_SecondRunSkipped ==
    [][\A msg \in queue :
          (queue' = queue \ {msg} /\ docs[msg.doc].status \in {"ready", "processing"})
              => /\ taskLast'.outcome = "skipped"
                 /\ taskLast'.doc = msg.doc
                 /\ UNCHANGED <<docs, wk, auditLog, docVectors, docChunks>>]_vars

\* a second run was skipped for a document the first run had made ready
C4_Witness ==
    /\ taskLast.outcome = "skipped"
    /\ docs[taskLast.doc].status = "ready"
    /\ auditLog[taskLast.doc].processed = 1

\* ---- C5 -----------------------------------------------------------------
\* the run of worker w ends in this step
RunEnds(w) == wk[w].pc # "idle" /\ wk'[w].pc = "idle"

FailureOutcomes == {"error", "retry", "raised", "timeout"}

\* the run of worker w ends in this step with a failure
RunFails(w) == RunEnds(w) /\ taskLast'.outcome \in FailureOutcomes

C6_FailedRunAudited ==
    [][\A w \in Workers :
          RunFails(w) =>
              auditLog'[wk[w].doc].processing_failed
                  = auditLog[wk[w].doc].processing_failed + 1]_vars

\* ---- C7 -----------------------------------------------------------------
\* C7: a failed run that was retried n < 3 times schedules retry n + 1 with
\* a countdown of 30 * 2^n seconds; one that was retried 3 times schedules
\* nothing.
C7_FailedRunRetried ==
    [][\A w \in Workers :
          RunFails(w) =>
              IF wk[w].retries < MAX_RETRIES
                 THEN /\ [doc |-> wk[w].doc, retries |-> wk[w].retries + 1] \in queue'
                      /\ taskLast'.countdown = RETRY_BASE * Pow2(wk[w].retries)
                 ELSE queue' = queue]_vars

\* ---- C8 -----------------------------------------------------------------
\* request r starts an attempt on a provider in this step
AttemptStarts(r) ==
    /\ llmReq'[r].pc = "await"
    /\ llmReq[r].pc = "idle" \/ llmReq'[r].idx # llmReq[r].idx

AttemptedProvider(r) == llmReq'[r].specs[llmReq'[r].idx].provider

\* C8 as stated: a provider with >= 3 consecutive failed answers, the last
\* of them less than 60 s ago, is skipped, never contacted.
C8_OpensOnThreeConsecutiveFailures ==
    [][\A r \in Requests :
          AttemptStarts(r) =>
              ~(/\ cbStreak'[AttemptedProvider(r)] >= OPEN_THRESHOLD
                /\ now < cbOpenUntil'[AttemptedProvider(r)])]_vars

\* C8 amended: the failure count restarts from zero when an open window
\* expires.  A provider with >= 3 failures counted since its last success
\* or window expiry, the last less than 60 s ago, is never contacted; in
\* particular not after exactly three consecutive failed answers.
C8_OpensOnThreeCountedFailures ==
    [][\A r \in Requests :
          AttemptStarts(r) =>
              /\ ~(/\ cbFailures'[AttemptedProvider(r)] >= OPEN_THRESHOLD
                   /\ now < cbOpenUntil'[AttemptedProvider(r)])
              /\ ~(/\ cbStreak'[AttemptedProvider(r)] = OPEN_THRESHOLD
                   /\ now < cbOpenUntil'[AttemptedProvider(r)])]_vars

\* a call skipped its primary, whose provider failed three times in a row,
\* and is being served by a fallback
C8_Witness ==
    \E r \in Requests :
        /\ llmReq[r].pc = "await"
        /\ 1 \in llmReq[r].skipped
        /\ cbStreak[llmReq[r].specs[1].provider] = OPEN_THRESHOLD
        /\ now < cbOpenUntil[llmReq[r].specs[1].provider]

\* ---- C9 -----------------------------------------------------------------
\* C9: once a provider's circuit has opened it stays open for 60 s: no
\* attempt on the provider starts before 60 s have passed since it opened.
C9_OpenCircuitStaysOpen ==
    [][\A r \in Requests :
          AttemptStarts(r) =>
              ~(/\ cbOpenedAt'[AttemptedProvider(r)] >= 0
                /\ now < cbOpenedAt'[AttemptedProvider(r)] + RESET_SECONDS)]_vars

\* ---- C10 ----------------------------------------------------------------
\* C10: a client error (4xx other than rate-limit, authentication failure)
\* ends the call at once: no call is still running after it received one,
\* and the caller gets that very exception.
C10_ClientErrorSurfaces ==
    /\ \A r \in Requests : llmReq[r].exc \notin ClientErrors
    /\ llmLast.exc \in ClientErrors => llmLast.result = "raised"

\* a client error was re-raised although untried fallbacks remained
C10_Witness ==
    /\ llmLast.result = "raised"
    /\ llmLast.exc \in ClientErrors
    /\ llmLast.untried > 0

\* ---- C11 ----------------------------------------------------------------
\* C11: once a provider has delivered a content delta to the caller of a
\* streaming call, the call never moves on to another provider: a failure
\* of that provider ends the call.
C11_NoFallbackAfterFirstChunk ==
    [][(gw.chunks # <<>> /\ gw'.pc = "await") => gw'.idx = gw.idx]_vars

\* ---- C12 ----------------------------------------------------------------
\* C12: when the primary failed with a retriable error and a fallback
\* answered, the usage upsert of the call is keyed on the model and
\* provider that produced the answer.
C12_UsageKeyedOnAnsweringModel ==
    (gwLast.outcome = "ok" /\ 1 \in gwLast.failed /\ gwLast.tracked # NoKey)
        => gwLast.tracked = gwLast.answered

\* ---- C13 ----------------------------------------------------------------
\* C13: every provider a call is sent to, the primary and each fallback,
\* is a local-inference provider when the request is private and a
\* GDPR-compliant one when it is sensitive.
C13_PrivacyRespected ==
    gw.pc = "await" =>
        LET p == gw.specs[gw.idx].provider
        IN  /\ gw.privacy = "private"   => p \in LocalProviders
            /\ gw.privacy = "sensitive" => p \in GdprProviders

\* a sensitive request is on a fallback after its primary failed
C13_Witness ==
    /\ gw.pc = "await"
    /\ gw.privacy = "sensitive"
    /\ gw.idx > 1
    /\ 1 \in gw.failed

\* ---- C14 ----------------------------------------------------------------
\* C14: whenever an upload fails after its multipart upload was initiated,
\* in the part loop or at completion, abort_multipart_upload was called.
C14_FailedUploadAborted ==
    (mpLast.initiated /\ mpLast.status \in {400, 413, 500})
        => mpLast.aborts >= 1

\* ---- C15 ----------------------------------------------------------------
\* C15: when an upload is cancelled while its multipart upload is in
\* progress, abort_multipart_upload was called.
C15_CancelledUploadAborted ==
    (mpLast.initiated /\ mpLast.code = "CANCELLED") => mpLast.aborts >= 1

C17_SizeBoundary ==
    (mpLast.declared = NoLength
        \/ mpLast.declared \in {mpLast.size + f : f \in FormFraming})
        => /\ mpLast.size = MAX_FILE_SIZE_BYTES     => mpLast.status # 413
           /\ mpLast.size = MAX_FILE_SIZE_BYTES + 1 => mpLast.status # 202

\* ---- C18 ----------------------------------------------------------------
\* C18: every 409 DUPLICATE_DOCUMENT answer, from the checksum probe or from
\* the unique-constraint race, carries the id of a document that already
\* exists in saas.documents.
C18_DuplicateCarriesExistingId ==
    uplLast.outcome \in {"duplicate", "integrity_error"}
        => docs[uplLast.doc].status # "absent"

\* ---- C19 ----------------------------------------------------------------
\* C19: an upload that passed the probe while every row of its tenant with
\* the same checksum is soft-deleted is inserted as a new document; it is
\* not answered 409.
C19_ReuploadAfterDeleteAccepted ==
    [][\A u \in Uploaders :
          (/\ upl[u].pc = "probed"
           /\ upl'[u].pc # "probed"
           /\ FindDuplicate(docs, upl[u].tenant, upl[u].md5) = {})
              => upl'[u].pc = "flushed"]_vars

\* ---- C20 ----------------------------------------------------------------
\* C20: once a document is soft-deleted its vectors are eventually gone
\* from the vector store.
C20_DeletedVectorsPurged ==
    \A d \in DocIds : (docs[d].status = "deleted") ~> ~docVectors[d]

C23_AttemptAlwaysAudited ==
    (au.pc = "idle" /\ auLast.code = "UNSUPPORTED_FILE_TYPE") =>
        AuditRow("document.upload_attempt", auCount) \in Range(auditRows)

\* ---- C24 ----------------------------------------------------------------
\* C24: when an upload is rejected as a duplicate or for a storage failure,
\* its document.duplicate_rejected / document.upload_failed entry is in the
\* audit log after the request's transaction has rolled back.
C24_FailureAuditPersisted ==
    (au.pc = "idle" /\ auLast.failure # None) =>
        AuditRow(auLast.failure, auCount) \in Range(auditRows)

\* ---- C25 ----------------------------------------------------------------
\* C25: the audit log is append-only: every step leaves the rows already in
\* saas.audit_logs in place and unchanged, and may only add rows after them.
C25_AuditAppendOnly ==
    [][/\ Len(auditRows') >= Len(auditRows)
       /\ SubSeq(auditRows', 1, Len(auditRows)) = auditRows]_vars

\* the rows of the first upload are still there after its document was
\* deleted and a second upload was rejected and rolled back
C25_Witness ==
    /\ au.pc = "idle"
    /\ auCount = 2
    /\ auDocs[1] = "deleted"
    /\ auLast.status \in {409, 413, 500}
    /\ AuditRow("document.uploaded", 1) \in Range(auditRows)
    /\ AuditRow("document.deleted", 1) \in Range(auditRows)

\* ---- C29 ----------------------------------------------------------------
\* C29: a file whose first bytes are %PDF and whose extension is .doc is
\* rejected by the type and extension validation.
C29_PdfBytesDocExtensionRejected ==
    (/\ auLast.sniffed
     /\ StartsWith(auLast.head, <<"%", "P", "D", "F">>)
     /\ FileExt(auLast.filename) = "doc") =>
        auLast.code = "UNSUPPORTED_FILE_TYPE"

\* ---- C26 ----------------------------------------------------------------
\* C26: with viewer < member < admin < owner, the role check of either
\* verifier lets a principal through exactly when the rank of its role is
\* at least the rank of the required role.
C26_RoleRankDecides ==
    /\ ROLE_ORDER["viewer"] < ROLE_ORDER["member"]
    /\ ROLE_ORDER["member"] < ROLE_ORDER["admin"]
    /\ ROLE_ORDER["admin"] < ROLE_ORDER["owner"]
    /\ (jwLast.min_role # None) =>
          /\ jwLast.status \in {200, 403}
          /\ jwLast.status = 200 <=>
                ROLE_ORDER[jwLast.role] >= ROLE_ORDER[jwLast.min_role]

\* an admin passes a check that requires admin
C26_Witness ==
    /\ jwLast.verifier = "token"
    /\ jwLast.role = "admin"
    /\ jwLast.min_role = "admin"
    /\ jwLast.status = 200

\* ---- C27 ----------------------------------------------------------------
\* C27: when the token's kid is not in the key set of the first attempt,
\* the issuer's cache entry is flushed and the JWKS is requested once more,
\* exactly once: a key found by that request lets the token go on to be
\* verified (a valid token authenticates), a second miss is answered 401
\* with no further request.
C27_RefetchOnce ==
    LET refetches == jwLast.fetches - (IF jwLast.first = "fetch" THEN 1 ELSE 0)
    IN  (jwLast.missed /\ jw.pc = "idle" /\ jwLast.status # 0) =>
            /\ jwLast.flushed
            /\ refetches = 1
            /\ jwLast.refetch = "miss" => jwLast.status = 401
            /\ jwLast.refetch = "hit" =>
                  /\ jwLast.decoded # None
                  /\ jwLast.decoded = "ok" => jwLast.status \in {200, 403}
            /\ jwLast.refetch = None => jwLast.fetchError # None

\* the kid missed in the cached key set, the refetch found it, the token
\* authenticated
C27_Witness ==
    /\ jw.pc = "idle"
    /\ jwLast.first = "cache"
    /\ jwLast.missed
    /\ jwLast.flushed
    /\ jwLast.fetches = 1
    /\ jwLast.refetch = "hit"
    /\ jwLast.status = 200

\* ---- C28 ----------------------------------------------------------------
\* C28: a request whose JWKS fetch failed is answered with an
\* authentication failure (401).
C28_FetchErrorIs401 ==
    (jwLast.fetchError # None) => jwLast.status = 401

C22_PendingEventuallyRequeued ==
    \A d \in DocIds :
        (docs[d].status = "pending") ~>
            \/ docs[d].status # "pending"
            \/ [doc |-> d, retries |-> 0] \in queue
            \/ runs >= MaxRuns

\* ---- C31 ----------------------------------------------------------------
\* C31: every model of the chain a call runs on, the primary and each
\* fallback, satisfies every constraint the router applied when it selected
\* the primary: privacy level, context window, JSON mode, streaming.
C31_FallbacksQualify ==
    gw.pc = "await" =>
        \A i \in 1..Len(gw.specs) :
            LET s == gw.specs[i]
            IN  /\ gw.reqs.privacy \in s.privacy_levels
                /\ s.context_window >= gw.reqs.max_input_tokens
                /\ gw.reqs.require_json_mode => s.supports_json_mode
                /\ gw.reqs.require_streaming => s.supports_streaming

\* ---- C32 ----------------------------------------------------------------
\* C32: with requests running concurrently no increment and no reset of a
\* breaker is lost.  In every step and for every provider: a failure that
\* is recorded raises the count by exactly one; a success sets it to zero;
\* otherwise the count stays, or is reset to zero by the check that finds
\* the count at the threshold and the window passed.
C32_BreakerCountsExact ==
    [][\A p \in Providers :
          IF cbStreak'[p] = cbStreak[p] + 1
            THEN cbFailures'[p] = cbFailures[p] + 1
            ELSE IF cbStreak'[p] = 0 /\ cbStreak[p] # 0
                   THEN cbFailures'[p] = 0
                   ELSE \/ cbFailures'[p] = cbFailures[p]
                        \/ /\ cbFailures'[p] = 0
                           /\ cbFailures[p] >= OPEN_THRESHOLD
                           /\ now >= cbOpenUntil[p]]_vars

\* two calls in flight have each recorded a failure of the same provider
C32_Witness ==
    /\ \A r \in Requests : llmReq[r].pc = "await" /\ llmReq[r].idx = 2
    /\ llmReq["r1"].specs[1].provider = "openai"
    /\ llmReq["r2"].specs[1].provider = "openai"
    /\ cbFailures["openai"] = 2

\* ---- C35 ----------------------------------------------------------------
\* C35: once a document is ready no step of a worker or of the scanner
\* makes it failed or processing again; only the delete endpoint changes
\* the status of a ready document.
C35_ReadyIsFinal ==
    [][\A d \in DocIds :
          docs[d].status = "ready" => docs'[d].status \in {"ready", "deleted"}]_vars

\* ---- C36 ----------------------------------------------------------------
\* C36: at most one worker is inside the pipeline body of a document, the
\* steps after the flushed UPDATE status='processing' up to the commit,
\* however many messages for the document were delivered.
C36_OneWorkerPerDocument ==
    \A d \in DocIds :
        Cardinality({w \in Workers : wk[w].pc = "processing" /\ wk[w].doc = d}) <= 1

\* two deliveries for one document passed the guard; one worker is in the
\* body, the UPDATE of the other waits for the row lock
C36_Witness ==
    /\ wk["w1"].doc = wk["w2"].doc
    /\ {wk["w1"].pc, wk["w2"].pc} = {"processing", "gated"}

\* ---- C37 ----------------------------------------------------------------
\* C37: a soft-deleted document stays deleted, and no vectors or chunk rows
\* are written for it afterwards.
C37_DeletedIsFinal ==
    [][\A d \in DocIds :
          docs[d].status = "deleted" =>
              /\ docs'[d].status = "deleted"
              /\ docVectors'[d] = docVectors[d]
              /\ docChunks'[d] = docChunks[d]]_vars

\* ---- C38 ----------------------------------------------------------------
\* C38: an upsert call that raises for a tenant mismatch leaves the store
\* as it was before the call: no record of the call was written, those of
\* earlier batches included.
C38_RejectedUpsertWritesNothing ==
    [][(vsLast'.op = "upsert" /\ vsLast'.raised) => vsIndex' = vsIndex]_vars

\* ---- C40 ----------------------------------------------------------------
\* C40: a token with an unknown kid does not cost the cache its keys: when
\* the refetch that follows the flush fails, the issuer's entry, with the
\* keys it served to the request before the flush, is still in the cache,
\* so tokens signed with those keys verify without another request to the
\* endpoint.
C40_KeysSurviveFailedRefetch ==
    (/\ jw.pc = "idle"
     /\ jwLast.first = "cache"
     /\ jwLast.flushed
     /\ jwLast.fetchError # None) => jwksCache[jwLast.verifier].present

\* ---- C33 ----------------------------------------------------------------
\* C33: the retrieval of a query returns at most min(top_k, 5) chunks,
\* whether the reranker scored them or the candidates were passed through.
C33_AtMostFiveChunks ==
    (rt.pc = "idle" /\ rt.status = 200) =>
        Cardinality(rt.returned) <= Min(rt.top_k, RERANK_TOP_N)

\* ---- C34 ----------------------------------------------------------------
\* C34: the queue of a progress stream never holds more than 200 events,
\* and a push is possible in every state: with the queue full, or with no
\* stream connected, the uploader's event is dropped and the uploader goes
\* on.
C34_QueueBoundedNeverBlocks ==
    /\ Len(sse.queue) <= SSE_QUEUE_MAXSIZE
    /\ ENABLED SsePush("uploading")

\* the stream is connected, its queue holds 200 events, and the push that
\* came last was dropped
C34_Witness ==
    /\ sse.open
    /\ Len(sse.queue) = SSE_QUEUE_MAXSIZE
    /\ sse.last = "dropped"

\* ---- C39 ----------------------------------------------------------------
\* C39: the status endpoint reports a pending document as queued and a
\* ready document as completed, and reports failed only for a document
\* whose stored status is failed.
C39_StatusFaithful ==
    stLast.code = 200 =>
        /\ stLast.stored = "pending" => stLast.processing_status = "queued"
        /\ stLast.stored = "ready" => stLast.processing_status = "completed"
        /\ stLast.processing_status = "failed" => stLast.stored = "failed"

=============================================================================
